---- MODULE Spec2Model ----
(***************************************************************************)
(* MultiQC plugin modules: CheckQC, FastQ Screen, Genomescope2, Pretext.    *)
(* Each module is one constructor run: discover files, parse them into the  *)
(* module's mappings, signal "no data" or add its sections.                 *)
(*                                                                          *)
(* Python dicts are functions (DOMAIN = the keys); an OrderedDict whose     *)
(* order is read is a record [order, rec]. Python values that may be a      *)
(* number or a string are tagged records [num |-> ..] / [str |-> ..].       *)
(* Text is a sequence of one-character strings.                             *)
(***************************************************************************)
EXTENDS Integers, Sequences, FiniteSets, TLC

VARIABLES
    \* ---- CheckQC (src/multiqc/modules/checkqc/checkqc.py)
    cq_pc,          \* position of the constructor: idle, parsing, done, UserWarning, ValueError
    n_log_files,    \* len(self.log_files)
    cq_parsed,      \* number of log files the constructor loop has parsed
    raw_content,    \* the json document parsed last (<<>> before the first)
    checkqc_data,   \* self.checkqc_data: handler -> sample -> record
    general_stats,  \* the constructor's general_stats dict
    cq_runs,        \* the run names _get_unique_runname returned, in order
    cq_ignore,      \* the host's ignore list (exact sample names)
    cq_sections     \* anchors of the sections added, in order

cqVars == <<cq_pc, n_log_files, cq_parsed, raw_content, checkqc_data,
            general_stats, cq_runs, cq_ignore, cq_sections>>

VARIABLES
    \* ---- FastQ Screen (src/multiqc/fastq_screen/__init__.py)
    fq_pc,              \* idle, walking, done, UserWarning, ValueError, OSError
    fq_walk,            \* the *_screen.txt candidates os.walk has yielded, in order
    fq_screen_raw_data, \* sample name -> text read
    fq_screen_data,     \* what parse_fqscreen returned (EmptyDict before)
    fq_plot             \* what fqscreen_plot built: [categories, data]

fqVars == <<fq_pc, fq_walk, fq_screen_raw_data, fq_screen_data, fq_plot>>

VARIABLES
    \* ---- Genomescope2 (src/multiqc/modules/genomescope2/genomescope2.py)
    gs_pc,            \* idle, parsing, figures, done, UserWarning, IndexError, AttributeError
    gs_files,         \* the summary files parsed so far, in order
    summary_data,     \* self.summary_data: sample -> metric -> value
    legends,          \* self.legends: [set, names]; set is FALSE until first assigned
    genomescope_png,  \* self.genomescope_png: an ordered dict image name -> base64 text
    gs_ignore,        \* the host's ignore list
    gs_sections       \* names of the sections added, in order

gsVars == <<gs_pc, gs_files, summary_data, legends, genomescope_png, gs_ignore, gs_sections>>

VARIABLES
    \* ---- Pretext (src/multiqc/modules/pretext/pretext.py)
    px_pc,         \* idle, reading, returned, or the exception that left the constructor
    px_files,      \* the image files find_log_files has yielded, in order
    pretext_data,  \* self.pretext_data: an ordered dict image name -> base64 text
    px_ignore,     \* the host's ignore list
    px_fault,      \* the host call that raised an unexpected exception, or "none"
    px_log,        \* what the module logged at error level
    px_sections    \* names of the sections added, in order

pxVars == <<px_pc, px_files, pretext_data, px_ignore, px_fault, px_log, px_sections>>

VARIABLES
    \* ---- Merqury (src/multiqc/modules/merqury/merqury.py)
    mq_pc,              \* idle, completeness, qv, spectra, render, figures, done,
                        \* UserWarning, IndexError, ValueError
    mq_count,           \* files the running loop of the constructor has parsed
    mq_file,            \* the file handed last to a parser: [s_name, lines]
    completeness_data,  \* self.completeness_data: key -> record
    qv_data,            \* self.qv_data: key -> record
    spectra_data,       \* self.spectra_data: an ordered dict sample -> plot -> series
    merqury_png,        \* self.merqury_png: an ordered dict image name -> base64 text
    mq_ignore,          \* the host's ignore list
    mq_sections         \* names of the sections added, in order

mqVars == <<mq_pc, mq_count, mq_file, completeness_data, qv_data, spectra_data,
            merqury_png, mq_ignore, mq_sections>>

vars == <<cqVars, fqVars, gsVars, pxVars, mqVars>>

----------------------------------------------------------------------------
\* Python dict operations

EmptyDict == <<>>

\* d[k] = v
Put(d, k, v) == [x \in DOMAIN d \cup {k} |-> IF x = k THEN v ELSE d[x]]

\* d.update(e)
Update(d, e) == [x \in DOMAIN d \cup DOMAIN e |-> IF x \in DOMAIN e THEN e[x] ELSE d[x]]

\* an OrderedDict: the keys in insertion order, and the mapping
EmptyOrdered == [order |-> <<>>, rec |-> EmptyDict]

\* od[k] = v: a key already present keeps its place
OPut(od, k, v) ==
    [order |-> IF k \in DOMAIN od.rec THEN od.order ELSE Append(od.order, k),
     rec |-> Put(od.rec, k, v)]

----------------------------------------------------------------------------
\* A module the host is not running

CqIdle ==
    /\ cq_pc = "idle"
    /\ n_log_files = 0
    /\ cq_parsed = 0
    /\ raw_content = EmptyDict
    /\ checkqc_data = EmptyDict
    /\ general_stats = EmptyDict
    /\ cq_runs = <<>>
    /\ cq_ignore = {}
    /\ cq_sections = <<>>

FqIdle ==
    /\ fq_pc = "idle"
    /\ fq_walk = <<>>
    /\ fq_screen_raw_data = EmptyDict
    /\ fq_screen_data = EmptyDict
    /\ fq_plot = [categories |-> <<>>, data |-> <<>>]

GsIdle ==
    /\ gs_pc = "idle"
    /\ gs_files = <<>>
    /\ summary_data = EmptyDict
    /\ legends = [set |-> FALSE, names |-> <<>>]
    /\ genomescope_png = EmptyOrdered
    /\ gs_ignore = {}
    /\ gs_sections = <<>>

PxIdle ==
    /\ px_pc = "idle"
    /\ px_files = <<>>
    /\ pretext_data = EmptyOrdered
    /\ px_ignore = {}
    /\ px_fault = "none"
    /\ px_log = <<>>
    /\ px_sections = <<>>

MqIdle ==
    /\ mq_pc = "idle"
    /\ mq_count = 0
    /\ mq_file = [s_name |-> <<>>, lines |-> <<>>]
    /\ completeness_data = EmptyDict
    /\ qv_data = EmptyDict
    /\ spectra_data = EmptyOrdered
    /\ merqury_png = EmptyOrdered
    /\ mq_ignore = {}
    /\ mq_sections = <<>>

----------------------------------------------------------------------------
\* Text: sequences of one-character strings

\* the characters of the fixtures, in code point order
Ascii == <<"\t", " ", "#", "%", "(", ")", "+", ",", "-", ".", "/", "0", "1", "2", "3", "4",
          "5", "6", "7", "8", "9", ":", "=", "A", "B", "C", "D", "E", "F", "G", "H", "I",
          "J", "K", "L", "M", "N", "O", "P", "Q", "R", "S", "T", "U", "V", "W", "X", "Y",
          "Z", "_", "a", "b", "c", "d", "e", "f", "g", "h", "i", "j", "k", "l", "m", "n",
          "o", "p", "q", "r", "s", "t", "u", "v", "w", "x", "y", "z">>

CharRank(c) == CHOOSE k \in 1..Len(Ascii) : Ascii[k] = c

DigitChars == <<"0", "1", "2", "3", "4", "5", "6", "7", "8", "9">>

IsDigit(c) == \E k \in 1..10 : DigitChars[k] = c

DigitValue(c) == (CHOOSE k \in 1..10 : DigitChars[k] = c) - 1

\* \s
IsSpace(c) == c \in {" ", "\t"}

\* \w: letters, digits and the underscore
IsWordChar(c) ==
    \/ IsDigit(c)
    \/ c = "_"
    \/ CharRank(c) >= CharRank("A") /\ CharRank(c) <= CharRank("Z")
    \/ CharRank(c) >= CharRank("a") /\ CharRank(c) <= CharRank("z")

\* s[:n]
Head_n(s, n) == SubSeq(s, 1, IF n < Len(s) THEN n ELSE Len(s))

\* s[n:]
From(s, n) == SubSeq(s, n + 1, Len(s))

\* s.startswith(p)
StartsWith(s, p) == Len(s) >= Len(p) /\ SubSeq(s, 1, Len(p)) = p

\* s.endswith(p)
EndsWith(s, p) == Len(s) >= Len(p) /\ SubSeq(s, Len(s) - Len(p) + 1, Len(s)) = p

RECURSIVE LStrip(_)
LStrip(s) == IF s # <<>> /\ IsSpace(s[1]) THEN LStrip(Tail(s)) ELSE s

RECURSIVE RStrip(_)
RStrip(s) ==
    IF s # <<>> /\ IsSpace(s[Len(s)]) THEN RStrip(SubSeq(s, 1, Len(s) - 1)) ELSE s

\* s.strip()
Strip(s) == RStrip(LStrip(s))

RECURSIVE Pow10(_)
Pow10(n) == IF n = 0 THEN 1 ELSE 10 * Pow10(n - 1)

RECURSIVE DigitsValue(_)
DigitsValue(s) ==
    IF s = <<>> THEN 0 ELSE 10 * DigitsValue(SubSeq(s, 1, Len(s) - 1)) + DigitValue(s[Len(s)])

\* a float as the exact fraction num/den, den a power of ten, in lowest such terms
RECURSIVE Normal(_)
Normal(v) ==
    IF v.den > 1 /\ v.num % 10 = 0
    THEN Normal([num |-> v.num \div 10, den |-> v.den \div 10]) ELSE v

\* the int 0 the parsers store
Zero == [num |-> 0, den |-> 1]

\* float(s) on text of digits, "." and a sign, with blanks around it. Returns
\* [ok, val]: ok is FALSE where float() raises ValueError. Exponents, "inf",
\* "nan" and digit-group underscores do not occur in the fixtures.
float(s) ==
    LET t == Strip(s)
        u == IF t # <<>> /\ t[1] \in {"+", "-"} THEN Tail(t) ELSE t
        negative == t # <<>> /\ t[1] = "-"
        dots == {k \in 1..Len(u) : u[k] = "."}
        wellformed ==
            /\ \A k \in 1..Len(u) : IsDigit(u[k]) \/ u[k] = "."
            /\ Cardinality(dots) <= 1
            /\ \E k \in 1..Len(u) : IsDigit(u[k])
        digits == SelectSeq(u, IsDigit)
        places == IF dots = {} THEN 0 ELSE Len(u) - (CHOOSE k \in dots : TRUE)
        magnitude == DigitsValue(digits)
    IN  IF ~wellformed THEN [ok |-> FALSE, val |-> Zero]
        ELSE [ok |-> TRUE,
              val |-> Normal([num |-> IF negative THEN 0 - magnitude ELSE magnitude,
                              den |-> Pow10(places)])]

\* the maximal runs of non-blank characters of s, in order
RECURSIVE Fields(_, _, _)
Fields(s, i, acc) ==
    IF i > Len(s) THEN acc
    ELSE IF IsSpace(s[i]) THEN Fields(s, i + 1, acc)
    ELSE IF i > 1 /\ ~IsSpace(s[i - 1])
         THEN Fields(s, i + 1, [acc EXCEPT ![Len(acc)] = Append(@, s[i])])
         ELSE Fields(s, i + 1, Append(acc, <<s[i]>>))

----------------------------------------------------------------------------
\* Bounds of the model

\* log files one CheckQC run discovers, at most
MaxFiles == 2

\* lanes an issue of a fixture document can name
MaxLane == 2

\* indexes the largest unidentified-index fixture reports
MaxIndexes == 22

----------------------------------------------------------------------------
\* CheckQC

handlers == <<"ClusterPFHandler", "Q30Handler", "ErrorRateHandler",
              "ReadsPerSampleHandler", "UnidentifiedIndexHandler",
              "UndeterminedPercentageHandler">>

\* pow(10, 6)
Million == 1000000

\* the slice bound of sorted(...)[:20]
TopN == 20

\* The host's BaseMultiqcModule.clean_s_name: strips directory parts and the
\* file-name extensions of its configuration; the names built here carry none.
clean_s_name(s) == s

\* The host's BaseMultiqcModule.is_ignore_sample against its ignore list.
is_ignore_sample(s) == s \in cq_ignore

\* self.checkqc_data[h] = data, or .update(data), when data is not empty
\* a merge that stores the handler key even when no issue was kept
merge_handler_always(cd, h, data) ==
    IF h \notin DOMAIN cd THEN Put(cd, h, data) ELSE Put(cd, h, Update(cd[h], data))

merge_handler(cd, h, data) ==
    IF data = EmptyDict THEN cd
    ELSE IF h \notin DOMAIN cd THEN Put(cd, h, data)
    ELSE Put(cd, h, Update(cd[h], data))

RECURSIVE unique_loop(_, _, _, _)
unique_loop(cd, base_run_name, run_name, i) ==
    IF run_name \in DOMAIN cd
    THEN unique_loop(cd, base_run_name, base_run_name \o "_" \o ToString(i), i + 1)
    ELSE run_name

_get_unique_runname(cd, content) ==
    unique_loop(cd, content["run_summary"], content["run_summary"], 1)

\* ---- ReadsPerSampleHandler
reads_sample(issue, run) ==
    IF n_log_files = 1
    THEN clean_s_name(issue.data.sample_name \o " (Lane " \o ToString(issue.data.lane) \o ")")
    ELSE clean_s_name(issue.data.sample_name \o " (Lane " \o ToString(issue.data.lane)
                      \o ", run " \o run \o ")")

reads_record(issue) ==
    LET read_num == issue.data.sample_reads * Million
        read_threshold == issue.data.threshold * Million
        base == [read_num |-> read_num, threshold |-> read_threshold]
    IN  IF issue.type = "error"
        THEN Put(base, "missing_error", read_threshold - read_num)
        ELSE Put(base, "missing_warning", read_threshold - read_num)

reads_stats(issue) ==
    [read_num |-> issue.data.sample_reads * Million,
     read_threshold |-> issue.data.threshold * Million]

RECURSIVE reads_loop(_, _, _, _)
reads_loop(issues, i, run, acc) ==
    IF i > Len(issues) THEN acc
    ELSE LET sample == reads_sample(issues[i], run)
         IN  IF is_ignore_sample(sample) THEN reads_loop(issues, i + 1, run, acc)
             ELSE reads_loop(issues, i + 1, run,
                    [data |-> Put(acc.data, sample, reads_record(issues[i])),
                     general_stats |-> Put(acc.general_stats, sample, reads_stats(issues[i]))])

\* returns [cd: the new self.checkqc_data, general_stats: the returned dict]
get_reads_per_sample_data(cd, issues, run) ==
    LET r == reads_loop(issues, 1, run, [data |-> EmptyDict, general_stats |-> EmptyDict])
    IN  [cd |-> merge_handler(cd, "ReadsPerSampleHandler", r.data),
         general_stats |-> r.general_stats]

\* ---- ClusterPFHandler
lane_sample(issue, run) ==
    IF n_log_files = 1
    THEN clean_s_name(ToString(issue.data.lane))
    ELSE clean_s_name(ToString(issue.data.lane) \o " (" \o run \o ")")

cluster_pf_record(issue) ==
    LET lane_pf == issue.data.lane_pf
        threshold == issue.data.threshold * Million
        base == [lane_pf |-> lane_pf]
    IN  IF issue.type = "error"
        THEN Put(base, "missing_error", threshold - lane_pf)
        ELSE Put(base, "missing_warning", threshold - lane_pf)

RECURSIVE cluster_pf_loop(_, _, _, _)
cluster_pf_loop(issues, i, run, data) ==
    IF i > Len(issues) THEN data
    ELSE LET sample == lane_sample(issues[i], run)
         IN  IF is_ignore_sample(sample) THEN cluster_pf_loop(issues, i + 1, run, data)
             ELSE cluster_pf_loop(issues, i + 1, run,
                                  Put(data, sample, cluster_pf_record(issues[i])))

get_cluster_pf_data(cd, issues, run) ==
    merge_handler(cd, "ClusterPFHandler", cluster_pf_loop(issues, 1, run, EmptyDict))

\* ---- Q30Handler
lane_read_sample(issue, run) ==
    IF n_log_files = 1
    THEN clean_s_name(ToString(issue.data.lane) \o " - " \o ToString(issue.data.read))
    ELSE clean_s_name(ToString(issue.data.lane) \o " - " \o ToString(issue.data.read)
                      \o " (" \o run \o ")")

\* the distance taken as observed minus threshold
q30_record_reversed(issue) ==
    Put([percent_q30 |-> issue.data.percent_q30],
        IF issue.type = "error" THEN "missing_error" ELSE "missing_warning",
        issue.data.percent_q30 - issue.data.threshold)

q30_record(issue) ==
    LET percent_q30 == issue.data.percent_q30
        threshold == issue.data.threshold
        base == [percent_q30 |-> percent_q30]
    IN  IF issue.type = "error"
        THEN Put(base, "missing_error", threshold - percent_q30)
        ELSE Put(base, "missing_warning", threshold - percent_q30)

RECURSIVE q30_loop(_, _, _, _)
q30_loop(issues, i, run, data) ==
    IF i > Len(issues) THEN data
    ELSE LET sample == lane_read_sample(issues[i], run)
         IN  IF is_ignore_sample(sample) THEN q30_loop(issues, i + 1, run, data)
             ELSE q30_loop(issues, i + 1, run, Put(data, sample, q30_record(issues[i])))

get_q30_data(cd, issues, run) ==
    merge_handler(cd, "Q30Handler", q30_loop(issues, 1, run, EmptyDict))

\* ---- ErrorRateHandler
\* every issue filed as a warning
error_rate_record_warning(issue) ==
    Put([threshold |-> issue.data.threshold], "missing_warning",
        issue.data.error_rate - issue.data.threshold)

error_rate_record(issue) ==
    LET error_rate == issue.data.error_rate
        threshold == issue.data.threshold
        base == [threshold |-> threshold]
    IN  IF issue.type = "error"
        THEN Put(base, "missing_error", error_rate - threshold)
        ELSE Put(base, "missing_warning", error_rate - threshold)

RECURSIVE error_rate_loop(_, _, _, _)
error_rate_loop(issues, i, run, data) ==
    IF i > Len(issues) THEN data
    ELSE LET sample == lane_read_sample(issues[i], run)
         IN  IF is_ignore_sample(sample) THEN error_rate_loop(issues, i + 1, run, data)
             ELSE error_rate_loop(issues, i + 1, run,
                                  Put(data, sample, error_rate_record(issues[i])))

get_error_rate_data(cd, issues, run) ==
    merge_handler(cd, "ErrorRateHandler", error_rate_loop(issues, 1, run, EmptyDict))

\* ---- UndeterminedPercentageHandler
undetermined_record(issue) ==
    LET p_undetermined == issue.data.percentage_undetermined
        threshold == issue.data.threshold
        computed_threshold == issue.data.computed_threshold
        base == [phix |-> issue.data.phix_on_lane, threshold |-> threshold]
    IN  IF issue.type = "error"
        THEN Put(base, "missing_error", p_undetermined - computed_threshold)
        ELSE Put(base, "missing_warning", p_undetermined - computed_threshold)

RECURSIVE undetermined_loop(_, _, _, _)
undetermined_loop(issues, i, run, data) ==
    IF i > Len(issues) THEN data
    ELSE LET sample == lane_sample(issues[i], run)
         IN  IF is_ignore_sample(sample) THEN undetermined_loop(issues, i + 1, run, data)
             ELSE undetermined_loop(issues, i + 1, run,
                                    Put(data, sample, undetermined_record(issues[i])))

get_undetermined_percentage_data(cd, issues, run) ==
    merge_handler(cd, "UndeterminedPercentageHandler",
                  undetermined_loop(issues, 1, run, EmptyDict))

\* ---- UnidentifiedIndexHandler
\* A message is its text cut at the places the pattern captures: literal parts
\* are strings, a captured number is [ok, val] (ok: float() accepts its text).

\* re.match of the overrepresentation pattern, anchored at the start only
re_match(msg) ==
    /\ Len(msg) >= 9
    /\ msg[1] = "Index: "
    /\ msg[3] = " on lane: "
    /\ msg[5] = " was significantly overrepresented ("
    /\ msg[7] = "%) at significance threshold of: "
    /\ msg[9] = "%."

\* the loop over issues: idx_to_lane_to_rep with its insertion order
RECURSIVE index_loop(_, _, _)
index_loop(issues, i, acc) ==
    IF i > Len(issues) THEN acc
    ELSE LET msg == issues[i].data.msg
         IN  IF ~re_match(msg) THEN index_loop(issues, i + 1, acc)
             ELSE IF ~msg[6].ok \/ ~msg[8].ok THEN [acc EXCEPT !.error = TRUE]
             ELSE LET index == msg[2]
                      lane == msg[4]
                      old == IF index \in DOMAIN acc.l2r THEN acc.l2r[index] ELSE EmptyDict
                  IN  index_loop(issues, i + 1,
                        [order |-> IF index \in DOMAIN acc.l2r THEN acc.order
                                   ELSE Append(acc.order, index),
                         l2r |-> Put(acc.l2r, index, Put(old, lane, msg[6].val)),
                         error |-> FALSE])

RECURSIVE SumValues(_)
SumValues(d) ==
    IF DOMAIN d = {} THEN 0
    ELSE LET k == CHOOSE x \in DOMAIN d : TRUE
         IN  d[k] + SumValues([x \in DOMAIN d \ {k} |-> d[x]])

\* (idx, sum(l2r.values()) / len(l2r)): the mean kept as the exact fraction sum/len
mean_pairs(acc) ==
    [j \in 1..Len(acc.order) |->
        [idx |-> acc.order[j],
         sum |-> SumValues(acc.l2r[acc.order[j]]),
         len |-> Cardinality(DOMAIN acc.l2r[acc.order[j]])]]

\* a.mean >= b.mean
MeanGe(a, b) == a.sum * b.len >= b.sum * a.len

\* a sort that is not stable: x goes before the elements of equal mean
sorted_insert_unstable(s, x) ==
    LET p == Cardinality({j \in 1..Len(s) : s[j].sum * x.len > x.sum * s[j].len})
    IN  SubSeq(s, 1, p) \o <<x>> \o SubSeq(s, p + 1, Len(s))

\* one insertion of sorted(key=itemgetter(1), reverse=True): x goes after every
\* element whose mean is at least its own (the sort is stable)
sorted_insert(s, x) ==
    LET p == Cardinality({j \in 1..Len(s) : MeanGe(s[j], x)})
    IN  SubSeq(s, 1, p) \o <<x>> \o SubSeq(s, p + 1, Len(s))

RECURSIVE sorted_desc(_, _, _)
sorted_desc(pairs, i, s) ==
    IF i > Len(pairs) THEN s ELSE sorted_desc(pairs, i + 1, sorted_insert(s, pairs[i]))

\* sorted(...)[:20]
sorted_idx(acc) ==
    LET s == sorted_desc(mean_pairs(acc), 1, <<>>)
    IN  SubSeq(s, 1, IF Len(s) < TopN THEN Len(s) ELSE TopN)

lane_key(lane, run) ==
    IF n_log_files = 1 THEN lane ELSE lane \o " (" \o run \o ")"

\* data[sample][lane] = val for every lane of one index
lanes_record(old, l2r, run) ==
    [k \in DOMAIN old \cup {lane_key(lane, run) : lane \in DOMAIN l2r} |->
        IF \E lane \in DOMAIN l2r : lane_key(lane, run) = k
        THEN l2r[CHOOSE lane \in DOMAIN l2r : lane_key(lane, run) = k]
        ELSE old[k]]

RECURSIVE unidentified_loop(_, _, _, _, _)
unidentified_loop(sorted, j, acc, run, data) ==
    IF j > Len(sorted) THEN data
    ELSE LET idx == sorted[j].idx
             sample == clean_s_name(idx)
             old == IF sample \in DOMAIN data THEN data[sample] ELSE EmptyDict
         IN  IF is_ignore_sample(sample) THEN unidentified_loop(sorted, j + 1, acc, run, data)
             ELSE unidentified_loop(sorted, j + 1, acc, run,
                    Put(data, sample, lanes_record(old, acc.l2r[idx], run)))

\* returns [ok: FALSE when float() raised ValueError, cd: the new self.checkqc_data]
get_unidentified_index_data(cd, issues, run) ==
    LET acc == index_loop(issues, 1, [order |-> <<>>, l2r |-> EmptyDict, error |-> FALSE])
    IN  IF acc.error THEN [ok |-> FALSE, cd |-> cd]
        ELSE [ok |-> TRUE,
              cd |-> merge_handler(cd, "UnidentifiedIndexHandler",
                        unidentified_loop(sorted_idx(acc), 1, acc, run, EmptyDict))]

\* ---- the dispatcher
Has(content, h) == h \in DOMAIN content

\* returns [ok, cd, general_stats, run]
parse_checkqc_json(cd, content) ==
    LET run == _get_unique_runname(cd, content)
        r1 == IF Has(content, "ReadsPerSampleHandler")
              THEN get_reads_per_sample_data(cd, content["ReadsPerSampleHandler"], run)
              ELSE [cd |-> cd, general_stats |-> EmptyDict]
        c2 == IF Has(content, "ClusterPFHandler")
              THEN get_cluster_pf_data(r1.cd, content["ClusterPFHandler"], run) ELSE r1.cd
        c3 == IF Has(content, "Q30Handler")
              THEN get_q30_data(c2, content["Q30Handler"], run) ELSE c2
        c4 == IF Has(content, "ErrorRateHandler")
              THEN get_error_rate_data(c3, content["ErrorRateHandler"], run) ELSE c3
        c5 == IF Has(content, "UndeterminedPercentageHandler")
              THEN get_undetermined_percentage_data(c4,
                        content["UndeterminedPercentageHandler"], run)
              ELSE c4
        r6 == IF Has(content, "UnidentifiedIndexHandler")
              THEN get_unidentified_index_data(c5, content["UnidentifiedIndexHandler"], run)
              ELSE [ok |-> TRUE, cd |-> c5]
    IN  [ok |-> r6.ok, cd |-> r6.cd, general_stats |-> r1.general_stats, run |-> run]

\* the anchors add_sections adds, in its order
add_sections(cd) ==
    LET order == <<"ReadsPerSampleHandler", "ClusterPFHandler", "Q30Handler",
                   "ErrorRateHandler", "UndeterminedPercentageHandler",
                   "UnidentifiedIndexHandler">>
    IN  SelectSeq(order, LAMBDA h : h \in DOMAIN cd)

----------------------------------------------------------------------------
\* CheckQC: the documents the host can hand to the module (after json.loads)

\* "Q30Handler" is a run name that is also a key of self.checkqc_data
RunNames == {"hiseq2500", "Q30Handler"}

IssueTypes == {"warning", "error"}

\* One issue of a threshold handler. The data object carries the fields of all
\* five threshold handlers; each handler reads its own.
ThresholdIssue(type, lane) ==
    [type |-> type,
     data |-> [lane |-> lane, read |-> 1, sample_name |-> "s1",
               threshold |-> IF type = "error" THEN 3 ELSE 5,
               sample_reads |-> lane,
               lane_pf |-> 100000 * lane,
               percent_q30 |-> lane,
               error_rate |-> 7 + lane,
               percentage_undetermined |-> 9 + lane,
               computed_threshold |-> IF type = "error" THEN 4 ELSE 6,
               phix_on_lane |-> 1]]

\* "info" is a type that is neither of the two
SingleIssueLists == {<<ThresholdIssue(t, 1)>> : t \in IssueTypes \cup {"info"}}

PairIssueLists ==
    {<<ThresholdIssue(t[1], 1), ThresholdIssue(t[2], l)>> :
        t \in IssueTypes \X IssueTypes, l \in 1..MaxLane}

ThresholdHandlers == {"ReadsPerSampleHandler", "ClusterPFHandler", "Q30Handler",
                      "ErrorRateHandler", "UndeterminedPercentageHandler"}

Letters == <<"A", "T", "G", "C">>

\* the k-th index sequence: three letters of ATGC
IndexName(k) ==
    Letters[((k \div 16) % 4) + 1] \o Letters[((k \div 4) % 4) + 1] \o Letters[(k % 4) + 1]

Num(n) == [ok |-> TRUE, val |-> n]

\* text such as "1..2": the pattern [0-9.]+ captures it and float() rejects it
NotANumber == [ok |-> FALSE, val |-> 0]

OverrepIssue(k, lane, pct) ==
    [type |-> "warning",
     data |-> [msg |-> <<"Index: ", IndexName(k), " on lane: ", ToString(lane),
                         " was significantly overrepresented (", pct,
                         "%) at significance threshold of: ", Num(1), "%.">>]]

OtherIssue == [type |-> "warning", data |-> [msg |-> <<"Index swap suspected.">>]]

\* n indexes on lane 1 with value (k * a) % 7 + 1, a message of another kind,
\* then a second lane for every fifth index
OverrepIssues(n, a) ==
    LET second == SelectSeq([k \in 1..n |-> k], LAMBDA k : k % 5 = 0)
    IN  [k \in 1..n |-> OverrepIssue(k, 1, Num(((k * a) % 7) + 1))]
        \o <<OtherIssue>>
        \o [j \in 1..Len(second) |-> OverrepIssue(second[j], 2, Num((second[j] % 3) + 1))]

IndexCounts == {2, TopN, MaxIndexes}

CheckqcFiles ==
    {[run_summary |-> r] : r \in RunNames}
    \cup {[h \in ThresholdHandlers \cup {"run_summary"} |->
              IF h = "run_summary" THEN r ELSE iss] :
            r \in RunNames, iss \in SingleIssueLists}
    \cup {[h \in ThresholdHandlers \cup {"run_summary"} |->
              IF h = "run_summary" THEN "hiseq2500" ELSE iss] :
            iss \in PairIssueLists}
    \cup {[run_summary |-> "hiseq2500", UnidentifiedIndexHandler |-> OverrepIssues(n, a)] :
            n \in IndexCounts, a \in {0, 1, 3}}
    \cup {[run_summary |-> "hiseq2500",
           UnidentifiedIndexHandler |-> <<OverrepIssue(1, 1, NotANumber)>>]}
    \cup {[run_summary |-> "miseq", UnidentifiedIndexHandler |-> OverrepIssues(2, 3)]}

\* ignore lists of the host's configuration
IgnoreLists ==
    {{}, {"1", "1 - 1", "s1 (Lane 1)", IndexName(1)}, {IndexName(k) : k \in 1..TopN}}

----------------------------------------------------------------------------
\* CheckQC: the constructor

\* self.checkqc_data = dict(); self.log_files = list(self.find_log_files("checkqc"))
CqInit ==
    /\ cq_pc = "parsing"
    /\ n_log_files \in 0..MaxFiles
    /\ cq_parsed = 0
    /\ raw_content = EmptyDict
    /\ checkqc_data = EmptyDict
    /\ general_stats = EmptyDict
    /\ cq_runs = <<>>
    /\ cq_ignore \in IgnoreLists
    /\ cq_sections = <<>>

\* one turn of "for f in self.log_files"
CqParseFile ==
    /\ cq_pc = "parsing"
    /\ cq_parsed < n_log_files
    /\ \E content \in CheckqcFiles :
         LET r == parse_checkqc_json(checkqc_data, content)
         IN  /\ raw_content' = content
             /\ cq_parsed' = cq_parsed + 1
             /\ cq_runs' = Append(cq_runs, r.run)
             /\ IF r.ok
                THEN /\ checkqc_data' = r.cd
                     /\ general_stats' = Update(general_stats, r.general_stats)
                     /\ cq_pc' = "parsing"
                ELSE /\ checkqc_data' = checkqc_data
                     /\ general_stats' = general_stats
                     /\ cq_pc' = "ValueError"
    /\ UNCHANGED <<n_log_files, cq_ignore, cq_sections>>
    /\ UNCHANGED <<fqVars, gsVars, pxVars, mqVars>>

\* after the loop: raise UserWarning, or add the sections
CqFinish ==
    /\ cq_pc = "parsing"
    /\ cq_parsed = n_log_files
    /\ IF checkqc_data = EmptyDict
       THEN /\ cq_pc' = "UserWarning"
            /\ cq_sections' = cq_sections
       ELSE /\ cq_pc' = "done"
            /\ cq_sections' = add_sections(checkqc_data)
    /\ UNCHANGED <<n_log_files, cq_parsed, raw_content, checkqc_data,
                   general_stats, cq_runs, cq_ignore>>
    /\ UNCHANGED <<fqVars, gsVars, pxVars, mqVars>>

CqNext == CqParseFile \/ CqFinish

\* a run that loads the CheckQC module alone
CqAlone == CqInit /\ FqIdle /\ GsIdle /\ PxIdle /\ MqIdle

SpecCheckQC == CqAlone /\ [][CqNext]_vars

----------------------------------------------------------------------------
\* CheckQC: properties

\* the identifier a threshold handler derives for an issue
CqSampleOf(h, issue, run) ==
    IF h = "ReadsPerSampleHandler" THEN reads_sample(issue, run)
    ELSE IF h \in {"Q30Handler", "ErrorRateHandler"} THEN lane_read_sample(issue, run)
    ELSE lane_sample(issue, run)

\* two issues of one handler of the document parsed last that derive one
\* identifier (not ignored), one a warning and one an error
CqMixedPair(h, i, j) ==
    /\ i # j
    /\ raw_content[h][i].type = "warning"
    /\ raw_content[h][j].type = "error"
    /\ CqSampleOf(h, raw_content[h][i], cq_runs[cq_parsed])
         = CqSampleOf(h, raw_content[h][j], cq_runs[cq_parsed])
    /\ ~is_ignore_sample(CqSampleOf(h, raw_content[h][i], cq_runs[cq_parsed]))

\* C1: in each threshold handler, when the document parsed holds a warning and
\* an error issue of one sample/lane identifier, in either order, the aggregate
\* record of that identifier holds both missing_warning and missing_error.
C1_BothChannelsKept ==
    (cq_pc = "parsing" /\ cq_parsed >= 1) =>
        \A h \in ThresholdHandlers \cap DOMAIN raw_content :
            \A i, j \in 1..Len(raw_content[h]) :
                CqMixedPair(h, i, j) =>
                    {"missing_warning", "missing_error"} \subseteq
                        DOMAIN checkqc_data[h][CqSampleOf(h, raw_content[h][i],
                                                          cq_runs[cq_parsed])]

\* C2: the run names _get_unique_runname returned for the files of one module
\* instance are pairwise distinct.
C2_RunNamesDistinct ==
    \A i, j \in 1..Len(cq_runs) : i # j => cq_runs[i] # cq_runs[j]

\* ---- C4: the expected top of the ranking, read off the issues themselves
C4_Matching(issues) == {i \in 1..Len(issues) : re_match(issues[i].data.msg)}

C4_Indexes(issues) == {issues[i].data.msg[2] : i \in C4_Matching(issues)}

C4_Rows(issues, x) == {i \in C4_Matching(issues) : issues[i].data.msg[2] = x}

C4_FirstPos(issues, x) ==
    CHOOSE i \in C4_Rows(issues, x) : \A k \in C4_Rows(issues, x) : i <= k

C4_Lanes(issues, x) == {issues[i].data.msg[4] : i \in C4_Rows(issues, x)}

\* the value of index x on a lane: that of the last issue naming both
C4_Value(issues, x, lane) ==
    LET rows == {i \in C4_Rows(issues, x) : issues[i].data.msg[4] = lane}
    IN  issues[CHOOSE i \in rows : \A k \in rows : k <= i].data.msg[6].val

C4_Sum(issues, x) ==
    SumValues([lane \in C4_Lanes(issues, x) |-> C4_Value(issues, x, lane)])

\* the indexes with fewer than 20 ranking before them; y ranks before x with a
\* higher mean, or the same mean and met earlier
C4_Expected(issues) ==
    LET tab == {[idx |-> x,
                 sum |-> C4_Sum(issues, x),
                 n |-> Cardinality(C4_Lanes(issues, x)),
                 first |-> C4_FirstPos(issues, x)] : x \in C4_Indexes(issues)}
        Before(y, x) ==
            \/ y.sum * x.n > x.sum * y.n
            \/ y.sum * x.n = x.sum * y.n /\ y.first < x.first
    IN  {x.idx : x \in {x \in tab : Cardinality({y \in tab : Before(y, x)}) < TopN}}

C4_Output ==
    IF "UnidentifiedIndexHandler" \in DOMAIN checkqc_data
    THEN DOMAIN checkqc_data["UnidentifiedIndexHandler"] ELSE {}

\* the first document has been parsed, it has the handler, nothing is ignored
C4_Case ==
    /\ cq_pc = "parsing"
    /\ cq_parsed = 1
    /\ "UnidentifiedIndexHandler" \in DOMAIN raw_content
    /\ cq_ignore = {}

\* C4: the output of get_unidentified_index_data for one file holds exactly the
\* 20 indexes of highest mean overrepresentation, equal means kept in the order
\* met; with 20 indexes or fewer it holds them all.
C4_Top20ByMeanStable ==
    C4_Case =>
        /\ C4_Output = C4_Expected(raw_content["UnidentifiedIndexHandler"])
        /\ Cardinality(C4_Output)
             = IF Cardinality(C4_Indexes(raw_content["UnidentifiedIndexHandler"])) > TopN
               THEN TopN
               ELSE Cardinality(C4_Indexes(raw_content["UnidentifiedIndexHandler"]))

\* more than 20 indexes, and the cut falls between two indexes of equal mean
C4_Witness ==
    /\ C4_Case
    /\ Cardinality(C4_Indexes(raw_content["UnidentifiedIndexHandler"])) > TopN
    /\ Cardinality(C4_Output) = TopN
    /\ LET issues == raw_content["UnidentifiedIndexHandler"]
       IN  \E x \in C4_Output : \E y \in C4_Indexes(issues) \ C4_Output :
              /\ C4_Sum(issues, x) * Cardinality(C4_Lanes(issues, y))
                   = C4_Sum(issues, y) * Cardinality(C4_Lanes(issues, x))
              /\ C4_FirstPos(issues, x) < C4_FirstPos(issues, y)

\* C7 (parse_checkqc_json): parsing again the document parsed last leaves
\* self.checkqc_data as it was.
C7_ReparseLeavesAggregate ==
    [][(/\ cq_pc = "parsing" /\ cq_pc' = "parsing"
        /\ cq_parsed >= 1
        /\ cq_parsed' = cq_parsed + 1
        /\ raw_content' = raw_content) => checkqc_data' = checkqc_data]_vars

----------------------------------------------------------------------------
\* FastQ Screen

\* "_screen.txt"
ScreenSuffix == <<"_", "s", "c", "r", "e", "e", "n", ".", "t", "x", "t">>

\* "%Hit_no_libraries:"
NoHitPrefix == <<"%", "H", "i", "t", "_", "n", "o", "_", "l",
                 "i", "b", "r", "a", "r", "i", "e", "s", ":">>

\* 'No hits'
NoHits == <<"N", "o", " ", "h", "i", "t", "s">>

IsDigitText(f) == f # <<>> /\ \A k \in 1..Len(f) : IsDigit(f[k])

IsDigitDotText(f) == f # <<>> /\ \A k \in 1..Len(f) : IsDigit(f[k]) \/ f[k] = "."

IsWordText(f) == f # <<>> /\ \A k \in 1..Len(f) : IsWordChar(f[k])

\* re.search of the organism pattern: twelve fields parted by blanks, none
\* before the first or after the last
re_search(l) ==
    LET f == Fields(l, 1, <<>>)
    IN  /\ l # <<>>
        /\ ~IsSpace(l[1])
        /\ ~IsSpace(l[Len(l)])
        /\ Len(f) = 12
        /\ IsWordText(f[1])
        /\ \A k \in {2, 3, 5, 7, 9, 11} : IsDigitText(f[k])
        /\ \A k \in {4, 6, 8, 10, 12} : IsDigitDotText(f[k])

\* the record of a "%Hit_no_libraries:" line whose number is v
no_hits_record(v) ==
    [percentages |-> [one_hit_one_library |-> v,
                      unmapped |-> Zero,
                      multiple_hits_one_library |-> Zero,
                      one_hit_multiple_libraries |-> Zero,
                      multiple_hits_multiple_libraries |-> Zero]]

\* the record of an organism line of fields f
organism_record(f) ==
    [percentages |-> [unmapped |-> float(f[4]).val,
                      one_hit_one_library |-> float(f[6]).val,
                      multiple_hits_one_library |-> float(f[8]).val,
                      one_hit_multiple_libraries |-> float(f[10]).val,
                      multiple_hits_multiple_libraries |-> float(f[12]).val],
     counts |-> [reads_processed |-> DigitsValue(f[2]),
                 unmapped |-> DigitsValue(f[3]),
                 one_hit_one_library |-> DigitsValue(f[5]),
                 multiple_hits_one_library |-> DigitsValue(f[7]),
                 one_hit_multiple_libraries |-> DigitsValue(f[9]),
                 multiple_hits_multiple_libraries |-> DigitsValue(f[11])]]

\* a turn that starts the sample's records afresh at a line of neither kind
parse_line_reset(acc, l) ==
    IF Head_n(l, 18) = NoHitPrefix
    THEN LET v == float(From(l, 19))
         IN  IF v.ok THEN [ok |-> TRUE, od |-> OPut(acc.od, NoHits, no_hits_record(v.val))]
             ELSE [ok |-> FALSE, od |-> acc.od]
    ELSE IF re_search(l)
    THEN LET f == Fields(l, 1, <<>>)
         IN  IF \A k \in {4, 6, 8, 10, 12} : float(f[k]).ok
             THEN [ok |-> TRUE, od |-> OPut(acc.od, f[1], organism_record(f))]
             ELSE [ok |-> FALSE, od |-> acc.od]
    ELSE [ok |-> TRUE, od |-> EmptyOrdered]

\* one turn of "for l in data.splitlines()"; acc is [ok, od], ok FALSE once
\* float() has raised ValueError
parse_line(acc, l) ==
    IF Head_n(l, 18) = NoHitPrefix
    THEN LET v == float(From(l, 19))
         IN  IF v.ok THEN [ok |-> TRUE, od |-> OPut(acc.od, NoHits, no_hits_record(v.val))]
             ELSE [ok |-> FALSE, od |-> acc.od]
    ELSE IF re_search(l)
    THEN LET f == Fields(l, 1, <<>>)
         IN  IF \A k \in {4, 6, 8, 10, 12} : float(f[k]).ok
             THEN [ok |-> TRUE, od |-> OPut(acc.od, f[1], organism_record(f))]
             ELSE [ok |-> FALSE, od |-> acc.od]
    ELSE acc

RECURSIVE parse_lines(_, _, _)
parse_lines(lines, i, acc) ==
    IF i > Len(lines) \/ ~acc.ok THEN acc
    ELSE parse_lines(lines, i + 1, parse_line(acc, lines[i]))

\* parsed_data[s] of one sample's text (its lines)
parse_sample(lines) == parse_lines(lines, 1, [ok |-> TRUE, od |-> EmptyOrdered])

\* returns [ok, parsed_data]: ok FALSE when a float() raised ValueError; a
\* sample with no record is popped
parse_fqscreen(raw) ==
    IF \E s \in DOMAIN raw : ~parse_sample(raw[s]).ok
    THEN [ok |-> FALSE, parsed_data |-> EmptyDict]
    ELSE [ok |-> TRUE,
          parsed_data |-> [s \in {x \in DOMAIN raw : parse_sample(raw[x]).od.order # <<>>} |->
                              parse_sample(raw[s]).od]]

\* a < b for str
RECURSIVE LexLess(_, _)
LexLess(a, b) ==
    IF b = <<>> THEN FALSE
    ELSE IF a = <<>> THEN TRUE
    ELSE IF a[1] = b[1] THEN LexLess(Tail(a), Tail(b))
    ELSE CharRank(a[1]) < CharRank(b[1])

\* sorted(S) of a set of str
RECURSIVE sorted_names(_)
sorted_names(S) ==
    IF S = {} THEN <<>>
    ELSE LET m == CHOOSE x \in S : \A y \in S \ {x} : LexLess(x, y)
         IN  <<m>> \o sorted_names(S \ {m})

p_types == <<"multiple_hits_multiple_libraries", "one_hit_multiple_libraries",
             "multiple_hits_one_library", "one_hit_one_library">>

\* the series of one hit type k for the samples in sorted order
plot_series(parsed_data, k) ==
    LET names == sorted_names(DOMAIN parsed_data)
    IN  [j \in 1..Len(names) |->
            [name |-> k,
             stack |-> names[j],
             data |-> [n \in 1..Len(parsed_data[names[j]].order) |->
                          parsed_data[names[j]].rec[parsed_data[names[j]].order[n]].percentages[k]],
             linked |-> j > 1]]

\* categories: the organisms of the first sample in sorted order
fqscreen_plot(parsed_data) ==
    LET names == sorted_names(DOMAIN parsed_data)
    IN  [categories |-> IF names = <<>> THEN <<>> ELSE parsed_data[names[1]].order,
         data |-> plot_series(parsed_data, p_types[1]) \o plot_series(parsed_data, p_types[2])
                  \o plot_series(parsed_data, p_types[3]) \o plot_series(parsed_data, p_types[4])]

----------------------------------------------------------------------------
\* FastQ Screen: the files os.walk can yield

FnA == <<"a", "_", "s", "c", "r", "e", "e", "n", ".", "t", "x", "t">>

FnB == <<"b", "_", "s", "c", "r", "e", "e", "n", ".", "t", "x", "t">>

FnNotes == <<"n", "o", "t", "e", "s", ".", "t", "x", "t">>

LineComment == <<"#", "F", "a", "s", "t", "q", "_", "s", "c", "r", "e", "e", "n">>

LineHuman ==
    <<"H", "u", "m", "a", "n", "\t", "1", "0", "0", "\t", "5", "\t", "5", ".", "0", "0",
      "\t", "9", "0", "\t", "9", "0", ".", "0", "0", "\t", "2", "\t", "2", ".", "0", "0",
      "\t", "2", "\t", "2", ".", "0", "0", "\t", "1", "\t", "1", ".", "0", "0">>

LineMouse ==
    <<"M", "o", "u", "s", "e", " ", "1", "0", "0", " ", "9", "5", " ", "9", "5", ".",
      "0", " ", "5", " ", "5", ".", "0", "0", " ", " ", "0", " ", "0", ".", "0", " ",
      "0", " ", "0", ".", "0", " ", "0", " ", "0", ".">>

\* eleven fields: not an organism line
LineShort ==
    <<"R", "a", "t", " ", "1", "0", "0", " ", "9", "5", " ", "9", "5", ".", "0", " ",
      "5", " ", "5", ".", "0", " ", "0", " ", "0", ".", "0", " ", "0", " ", "0", ".",
      "0", " ", "0">>

\* the percentage "1.2.3" matches [\d\.]+ and is no number
LineBadPercent ==
    <<"R", "a", "t", " ", "1", "0", "0", " ", "9", "5", " ", "1", ".", "2", ".", "3",
      " ", "5", " ", "5", ".", "0", " ", "0", " ", "0", ".", "0", " ", "0", " ", "0",
      ".", "0", " ", "0", " ", "0", ".", "0">>

LineNoHit == <<"%", "H", "i", "t", "_", "n", "o", "_", "l", "i", "b", "r",
               "a", "r", "i", "e", "s", ":", " ", "8", "7", ".", "5", "0">>

\* no blank after the colon: the character at offset 18 is skipped
LineNoHitTight == <<"%", "H", "i", "t", "_", "n", "o", "_", "l", "i", "b",
                    "r", "a", "r", "i", "e", "s", ":", "1", "2", ".", "5">>

\* nothing after the prefix
LineNoHitBare == <<"%", "H", "i", "t", "_", "n", "o", "_", "l",
                   "i", "b", "r", "a", "r", "i", "e", "s", ":">>

ScreenTexts ==
    {<<>>,
     <<LineComment, LineShort>>,
     <<LineComment, LineHuman, LineMouse, LineNoHit>>,
     <<LineMouse>>,
     <<LineNoHit, LineHuman, LineNoHitTight>>,
     <<LineHuman, LineNoHitBare>>,
     <<LineBadPercent>>,
     <<LineHuman, LineShort, LineComment, LineMouse>>}

\* read: what f.read() does: "ok", "ValueError" (caught) or "OSError"
WalkFiles ==
    {[fn |-> fn, text |-> t, read |-> "ok"] : fn \in {FnA, FnB}, t \in ScreenTexts}
    \cup {[fn |-> FnA, text |-> <<LineMouse>>, read |-> r] : r \in {"ValueError", "OSError"}}
    \cup {[fn |-> FnNotes, text |-> <<LineMouse>>, read |-> "ok"]}

\* files one walk yields, at most
MaxWalk == 2

----------------------------------------------------------------------------
\* FastQ Screen: the constructor

FqInit ==
    /\ fq_pc = "walking"
    /\ fq_walk = <<>>
    /\ fq_screen_raw_data = EmptyDict
    /\ fq_screen_data = EmptyDict
    /\ fq_plot = [categories |-> <<>>, data |-> <<>>]

\* a load that keeps the first file of a sample name
store_first(raw, s_name, text) == IF s_name \in DOMAIN raw THEN raw ELSE Put(raw, s_name, text)

\* fq_screen_raw_data[s_name] = f.read()
store(raw, s_name, text) == Put(raw, s_name, text)

\* one file of the walk: fn[:-11] names the sample of a "*_screen.txt" file
FqVisit ==
    /\ fq_pc = "walking"
    /\ Len(fq_walk) < MaxWalk
    /\ \E f \in WalkFiles :
         /\ fq_walk' = Append(fq_walk, f)
         /\ IF ~EndsWith(f.fn, ScreenSuffix) \/ f.read = "ValueError"
            THEN /\ fq_screen_raw_data' = fq_screen_raw_data
                 /\ fq_pc' = "walking"
            ELSE IF f.read = "OSError"
            THEN /\ fq_screen_raw_data' = fq_screen_raw_data
                 /\ fq_pc' = "OSError"
            ELSE /\ fq_screen_raw_data' =
                        store(fq_screen_raw_data,
                              clean_s_name(SubSeq(f.fn, 1, Len(f.fn) - 11)), f.text)
                 /\ fq_pc' = "walking"
    /\ UNCHANGED <<fq_screen_data, fq_plot>>
    /\ UNCHANGED <<cqVars, gsVars, pxVars, mqVars>>

\* the walk is over: raise UserWarning, or parse and plot
FqFinish ==
    /\ fq_pc = "walking"
    /\ IF fq_screen_raw_data = EmptyDict
       THEN /\ fq_pc' = "UserWarning"
            /\ UNCHANGED <<fq_screen_data, fq_plot>>
       ELSE LET r == parse_fqscreen(fq_screen_raw_data)
            IN  IF r.ok
                THEN /\ fq_pc' = "done"
                     /\ fq_screen_data' = r.parsed_data
                     /\ fq_plot' = fqscreen_plot(r.parsed_data)
                ELSE /\ fq_pc' = "ValueError"
                     /\ UNCHANGED <<fq_screen_data, fq_plot>>
    /\ UNCHANGED <<fq_walk, fq_screen_raw_data>>
    /\ UNCHANGED <<cqVars, gsVars, pxVars, mqVars>>

FqNext == FqVisit \/ FqFinish

\* a run that loads the FastQ Screen module alone
FqAlone == FqInit /\ CqIdle /\ GsIdle /\ PxIdle /\ MqIdle

SpecFastqScreen == FqAlone /\ [][FqNext]_vars

----------------------------------------------------------------------------
\* The host's services the image modules call

\* The host's BaseMultiqcModule.ignore_samples on a dict
ignore_samples(d, ignored) == [k \in DOMAIN d \ ignored |-> d[k]]

\* the same on a dict whose order is read
ignore_samples_ordered(od, ignored) ==
    [order |-> SelectSeq(od.order, LAMBDA k : k \notin ignored),
     rec |-> ignore_samples(od.rec, ignored)]

\* base64.b64encode: bytes in, the indexes of the base64 letters out, 64 for "="
RECURSIVE b64encode(_)
b64encode(b) ==
    IF b = <<>> THEN <<>>
    ELSE IF Len(b) = 1 THEN <<b[1] \div 4, (b[1] % 4) * 16, 64, 64>>
    ELSE IF Len(b) = 2
    THEN <<b[1] \div 4, (b[1] % 4) * 16 + b[2] \div 16, (b[2] % 16) * 4, 64>>
    ELSE <<b[1] \div 4, (b[1] % 4) * 16 + b[2] \div 16,
           (b[2] % 16) * 4 + b[3] \div 64, b[3] % 64>> \o b64encode(SubSeq(b, 4, Len(b)))

\* image files: the first bytes of a PNG, cut at two lengths
PngFiles ==
    {[s_name |-> n, bytes |-> b] : n \in {"img1", "img2"},
                                  b \in {<<137, 80, 78, 71>>, <<137, 80>>}}

\* image files one discovery yields, at most
MaxPng == 2

----------------------------------------------------------------------------
\* Genomescope2

\* "property"
PropertyWord == <<"p", "r", "o", "p", "e", "r", "t", "y">>

\* re.split(r"\s{2,}", s): acc is the fields so far, the last one still open
RECURSIVE split_wide(_, _, _)
split_wide(s, i, acc) ==
    IF i > Len(s) THEN acc
    ELSE IF IsSpace(s[i]) /\ ((i < Len(s) /\ IsSpace(s[i + 1])) \/ (i > 1 /\ IsSpace(s[i - 1])))
    THEN IF i < Len(s) /\ IsSpace(s[i + 1]) THEN split_wide(s, i + 1, acc)
         ELSE split_wide(s, i + 1, Append(acc, <<>>))
    ELSE split_wide(s, i + 1, [acc EXCEPT ![Len(acc)] = Append(@, s[i])])

\* s.rstrip("%bp"): drops every trailing character that is one of %, b, p
RECURSIVE rstrip_units(_)
rstrip_units(s) ==
    IF s # <<>> /\ s[Len(s)] \in {"%", "b", "p"}
    THEN rstrip_units(SubSeq(s, 1, Len(s) - 1)) ELSE s

\* this_val after the try: a float, or the stripped text when float() raised
coerce(text) ==
    LET this_val == rstrip_units(text)
    IN  IF float(this_val).ok THEN [float |-> float(this_val).val] ELSE [str |-> this_val]

\* content: every line from the first one that starts with "property" on
RECURSIVE content_of(_, _, _)
content_of(lines, i, started) ==
    IF i > Len(lines) THEN <<>>
    ELSE IF started \/ StartsWith(lines[i], PropertyWord)
    THEN <<lines[i]>> \o content_of(lines, i + 1, TRUE)
    ELSE content_of(lines, i + 1, FALSE)

\* "for l in content[1:]"; acc is [ok, record, names], ok FALSE once items[2]
\* has raised IndexError
RECURSIVE rows_loop(_, _, _)
rows_loop(content, i, acc) ==
    IF i > Len(content) \/ ~acc.ok THEN acc
    ELSE LET items == split_wide(Strip(content[i]), 1, <<<<>>>>)
         IN  IF Len(items) < 3 THEN [acc EXCEPT !.ok = FALSE]
             ELSE rows_loop(content, i + 1,
                    [ok |-> TRUE,
                     record |-> Put(acc.record, items[1], coerce(items[3])),
                     names |-> Append(acc.names, items[1])])

\* the rows of one file; old is the sample's earlier record, which
\* self.summary_data[s_name] = dict() discards
parse_rows(old, f) ==
    rows_loop(content_of(f.lines, 1, FALSE), 2,
              [ok |-> TRUE, record |-> EmptyDict, names |-> <<>>])

\* returns [ok, summary_data, legends]
parse_summary_log(sd, f) ==
    LET r == parse_rows(IF f.s_name \in DOMAIN sd THEN sd[f.s_name] ELSE EmptyDict, f)
    IN  [ok |-> r.ok,
         summary_data |-> Put(sd, f.s_name, r.record),
         legends |-> [set |-> TRUE, names |-> r.names]]

\* the keys of the headers summary_table builds from self.legends, in order
RECURSIVE summary_table(_)
summary_table(names) ==
    IF names = <<>> THEN <<>>
    ELSE LET before == summary_table(SubSeq(names, 1, Len(names) - 1))
         IN  IF \E k \in 1..Len(before) : before[k] = names[Len(names)] THEN before
             ELSE Append(before, names[Len(names)])

\* self.genomescope_png after the loop of find_figures
RECURSIVE load_figures(_, _, _)
load_figures(pngs, i, od) ==
    IF i > Len(pngs) THEN od
    ELSE load_figures(pngs, i + 1, OPut(od, pngs[i].s_name, b64encode(pngs[i].bytes)))

find_figures(pngs, ignored) ==
    ignore_samples_ordered(load_figures(pngs, 1, EmptyOrdered), ignored)

----------------------------------------------------------------------------
\* Genomescope2: the summary files the host can hand to the module

GsVersion == <<"G", "e", "n", "o", "m", "e", "S", "c", "o", "p", "e", " ",
               "v", "e", "r", "s", "i", "o", "n", " ", "2", ".", "0">>

GsHeader == <<"p", "r", "o", "p", "e", "r", "t", "y", " ", " ",
              " ", "m", "i", "n", " ", " ", " ", "m", "a", "x">>

\* value "1.5%"
GsHet ==
    <<"H", "e", "t", "e", "r", "o", "z", "y", "g", "o", "u", "s", " ", "(", "a", "b",
      ")", " ", " ", " ", "1", ".", "2", "%", " ", " ", " ", "1", ".", "5", "%">>

\* value "1,083 bp": no number even without the unit
GsLength ==
    <<"G", "e", "n", "o", "m", "e", " ", "H", "a", "p", "l", "o", "i", "d", " ", "L",
      "e", "n", "g", "t", "h", " ", " ", "1", ",", "0", "0", "0", " ", "b", "p", " ",
      "\t", "1", ",", "0", "8", "3", " ", "b", "p">>

\* value "42.50%bp"
GsFit == <<"M", "o", "d", "e", "l", " ", "F", "i", "t", " ", " ", "9", "0",
           ".", "5", "%", " ", " ", "4", "2", ".", "5", "0", "%", "b", "p">>

\* value "top": no unit, and it ends in a character rstrip drops
GsKmer == <<"k", " ", " ", "2", "1", " ", " ", "t", "o", "p">>

\* two fields only
GsShort == <<"R", "e", "a", "d", " ", "E", "r", "r", "o", "r", " ", " ", "0", ".", "5", "%">>

SummaryTexts ==
    {<<>>,
     <<GsVersion>>,
     <<GsHeader>>,
     <<GsVersion, GsHeader, GsHet, GsLength>>,
     <<GsVersion, GsHeader, GsFit>>,
     <<GsHeader, GsKmer>>,
     <<GsHeader, GsHet, GsShort>>}

SummaryFiles == {[s_name |-> n, lines |-> t] : n \in {"s1", "s2"}, t \in SummaryTexts}

\* summary files one discovery yields, at most
MaxSummaries == 2

PngLists ==
    {<<>>} \cup {<<f>> : f \in PngFiles}
    \cup {<<f, g>> : f \in {x \in PngFiles : x.s_name = "img1"}, g \in PngFiles}

----------------------------------------------------------------------------
\* Genomescope2: the constructor

GsInit ==
    /\ gs_pc = "parsing"
    /\ gs_files = <<>>
    /\ summary_data = EmptyDict
    /\ legends = [set |-> FALSE, names |-> <<>>]
    /\ genomescope_png = EmptyOrdered
    /\ gs_ignore \in {{}, {"s1", "img1"}}
    /\ gs_sections = <<>>

\* one turn of 'for f in self.find_log_files("genomescope2/summary")'
GsParse ==
    /\ gs_pc = "parsing"
    /\ Len(gs_files) < MaxSummaries
    /\ \E f \in SummaryFiles :
         LET r == parse_summary_log(summary_data, f)
         IN  /\ gs_files' = Append(gs_files, f)
             /\ summary_data' = r.summary_data
             /\ legends' = r.legends
             /\ gs_pc' = IF r.ok THEN "parsing" ELSE "IndexError"
    /\ UNCHANGED <<genomescope_png, gs_ignore, gs_sections>>
    /\ UNCHANGED <<cqVars, fqVars, pxVars, mqVars>>

\* self.find_figures()
GsFindFigures ==
    /\ gs_pc = "parsing"
    /\ \E pngs \in PngLists : genomescope_png' = find_figures(pngs, gs_ignore)
    /\ gs_pc' = "figures"
    /\ UNCHANGED <<gs_files, summary_data, legends, gs_ignore, gs_sections>>
    /\ UNCHANGED <<cqVars, fqVars, pxVars, mqVars>>

\* the rest of the constructor: filter, raise UserWarning or add the sections
GsFinish ==
    /\ gs_pc = "figures"
    /\ summary_data' = ignore_samples(summary_data, gs_ignore)
    /\ IF summary_data' = EmptyDict /\ genomescope_png.order = <<>>
       THEN /\ gs_pc' = "UserWarning"
            /\ gs_sections' = gs_sections
       ELSE IF ~legends.set
       THEN /\ gs_pc' = "AttributeError"
            /\ gs_sections' = gs_sections
       ELSE /\ gs_pc' = "done"
            /\ gs_sections' = <<"Summary">> \o genomescope_png.order
    /\ UNCHANGED <<gs_files, legends, genomescope_png, gs_ignore>>
    /\ UNCHANGED <<cqVars, fqVars, pxVars, mqVars>>

GsNext == GsParse \/ GsFindFigures \/ GsFinish

\* a run that loads the Genomescope module alone
GsAlone == GsInit /\ CqIdle /\ FqIdle /\ PxIdle /\ MqIdle

SpecGenomescope == GsAlone /\ [][GsNext]_vars

----------------------------------------------------------------------------
\* Pretext: the constructor

PxInit ==
    /\ px_pc = "reading"
    /\ px_files = <<>>
    /\ pretext_data = EmptyOrdered
    /\ px_ignore \in {{}, {"img1"}}
    /\ px_fault = "none"
    /\ px_log = <<>>
    /\ px_sections = <<>>

\* one turn of 'for f in self.find_log_files("pretext/png")', outside the try:
\* an exception of find_log_files or of f["f"].read() leaves the constructor
PxRead ==
    /\ px_pc = "reading"
    /\ Len(px_files) < MaxPng
    /\ \E f \in PngFiles, outcome \in {"ok", "find_log_files", "read"} :
         IF outcome = "ok"
         THEN /\ px_files' = Append(px_files, f)
              /\ pretext_data' = OPut(pretext_data, f.s_name, b64encode(f.bytes))
              /\ UNCHANGED <<px_pc, px_fault>>
         ELSE /\ px_fault' = outcome
              /\ px_pc' = "OSError"
              /\ UNCHANGED <<px_files, pretext_data>>
    /\ UNCHANGED <<px_ignore, px_log, px_sections>>
    /\ UNCHANGED <<cqVars, fqVars, gsVars, mqVars>>

\* ignore_samples, then the try block: UserWarning is caught and passed; any
\* other exception is logged, and the handler's use of the unimported
\* traceback raises NameError
PxFinish ==
    /\ px_pc = "reading"
    /\ \E fault \in {"none", "ignore_samples", "add_section"} :
         LET kept == ignore_samples_ordered(pretext_data, px_ignore)
         IN  IF fault = "ignore_samples"
             THEN /\ px_fault' = fault
                  /\ px_pc' = "Exception"
                  /\ UNCHANGED <<pretext_data, px_log, px_sections>>
             ELSE IF kept.order = <<>>
             THEN /\ pretext_data' = kept
                  /\ px_pc' = "returned"
                  /\ UNCHANGED <<px_fault, px_log, px_sections>>
             ELSE IF fault = "add_section"
             THEN /\ pretext_data' = kept
                  /\ px_fault' = fault
                  /\ px_log' = Append(px_log, "error")
                  /\ px_pc' = "NameError"
                  /\ UNCHANGED px_sections
             ELSE /\ pretext_data' = kept
                  /\ px_sections' = kept.order
                  /\ px_pc' = "returned"
                  /\ UNCHANGED <<px_fault, px_log>>
    /\ UNCHANGED <<px_files, px_ignore>>
    /\ UNCHANGED <<cqVars, fqVars, gsVars, mqVars>>

PxNext == PxRead \/ PxFinish

\* a run that loads the Pretext module alone
PxAlone == PxInit /\ CqIdle /\ FqIdle /\ GsIdle /\ MqIdle

SpecPretext == PxAlone /\ [][PxNext]_vars

----------------------------------------------------------------------------
\* Merqury

\* s.split(c) for a separator c of one character; acc starts as <<<<>>>>
RECURSIVE split(_, _, _, _)
split(s, c, i, acc) ==
    IF i > Len(s) THEN acc
    ELSE IF s[i] = c THEN split(s, c, i + 1, Append(acc, <<>>))
    ELSE split(s, c, i + 1, [acc EXCEPT ![Len(acc)] = Append(@, s[i])])

\* ".".join(parts)
RECURSIVE join_dot(_)
join_dot(parts) ==
    IF parts = <<>> THEN <<>>
    ELSE IF Len(parts) = 1 THEN parts[1]
    ELSE parts[1] \o <<".">> \o join_dot(Tail(parts))

\* s.replace(old, ""), old not empty
RECURSIVE replace(_, _)
replace(s, old) ==
    IF s = <<>> THEN <<>>
    ELSE IF StartsWith(s, old) THEN replace(From(s, Len(old)), old)
    ELSE <<s[1]>> \o replace(Tail(s), old)

\* int(s) on text of digits and a sign, with blanks around it. Returns [ok, val]:
\* ok is FALSE where int() raises ValueError.
int(s) ==
    LET t == Strip(s)
        u == IF t # <<>> /\ t[1] \in {"+", "-"} THEN Tail(t) ELSE t
    IN  IF ~IsDigitText(u) THEN [ok |-> FALSE, val |-> 0]
        ELSE [ok |-> TRUE,
              val |-> IF t[1] = "-" THEN 0 - DigitsValue(u) ELSE DigitsValue(u)]

\* the loop of parse_completeness_log; acc is [ok, data], ok FALSE once a row
\* has too few fields (IndexError)
RECURSIVE completeness_rows(_, _, _, _)
completeness_rows(lines, i, s_name, acc) ==
    IF i > Len(lines) THEN acc
    ELSE LET s == split(Strip(lines[i]), "\t", 1, <<<<>>>>)
         IN  IF Len(s) < 5 THEN [acc EXCEPT !.ok = FALSE]
             ELSE completeness_rows(lines, i + 1, s_name,
                    [acc EXCEPT !.data = Put(@, s_name \o <<"_">> \o s[1],
                                             [val1 |-> s[3], val2 |-> s[4],
                                              percent |-> s[5]])])

\* returns [ok, data]: self.completeness_data after the call
parse_completeness_log(cd, f) ==
    LET suffix == <<"_", "o", "u", "t", "p", "u", "t", "_", "m", "e", "r", "q",
                      "u", "r", "y", ".", "c", "o", "m", "p", "l", "e", "t", "e",
                      "n", "e", "s", "s", ".", "t", "a", "b">>
    IN  completeness_rows(f.lines, 1, replace(f.s_name, suffix),
                          [ok |-> TRUE, data |-> cd])

\* the loop of parse_qv_log, as completeness_rows
RECURSIVE qv_rows(_, _, _, _)
qv_rows(lines, i, s_name, acc) ==
    IF i > Len(lines) THEN acc
    ELSE LET s == split(Strip(lines[i]), "\t", 1, <<<<>>>>)
         IN  IF Len(s) < 5 THEN [acc EXCEPT !.ok = FALSE]
             ELSE qv_rows(lines, i + 1, s_name,
                    [acc EXCEPT !.data = Put(@, s_name \o <<"_">> \o s[1],
                                             [val1 |-> s[2], val2 |-> s[3],
                                              qv |-> s[4], error |-> s[5]])])

\* returns [ok, data]: self.qv_data after the call
parse_qv_log(qd, f) ==
    LET suffix == <<"_", "o", "u", "t", "p", "u", "t", "_", "m", "e", "r", "q",
                      "u", "r", "y", ".", "q", "v", ".", "t", "a", "b">>
    IN  qv_rows(f.lines, 1, replace(f.s_name, suffix), [ok |-> TRUE, data |-> qd])

\* a count put first is kept
put_count_first(serie, multiplicity, count) ==
    IF multiplicity \in DOMAIN serie THEN serie ELSE Put(serie, multiplicity, count)

\* data[serie][int(s[1])] = int(s[2])
put_count(serie, multiplicity, count) == Put(serie, multiplicity, count)

\* the loop of parse_spectra_log over splitlines()[1:]; acc is [error, data],
\* error the exception that ends the loop
RECURSIVE spectra_rows(_, _, _)
spectra_rows(lines, i, acc) ==
    IF i > Len(lines) THEN acc
    ELSE LET s == split(Strip(lines[i]), "\t", 1, <<<<>>>>)
         IN  IF Len(s) < 3 THEN [acc EXCEPT !.error = "IndexError"]
             ELSE IF ~int(s[3]).ok \/ ~int(s[2]).ok
             THEN [acc EXCEPT !.error = "ValueError"]
             ELSE LET serie == IF s[1] \in DOMAIN acc.data THEN acc.data[s[1]]
                               ELSE EmptyDict
                  IN  spectra_rows(lines, i + 1,
                        [acc EXCEPT !.data =
                            Put(@, s[1], put_count(serie, int(s[2]).val, int(s[3]).val))])

\* a plot stored as the sample's only plot
store_plot_alone(sd, s_name, p_name, data) == OPut(sd, s_name, Put(EmptyDict, p_name, data))

\* if s_name not in self.spectra_data.keys(): self.spectra_data[s_name] = {}
\* self.spectra_data[s_name][p_name] = data
store_plot(sd, s_name, p_name, data) ==
    OPut(sd, s_name,
         Put(IF s_name \in DOMAIN sd.rec THEN sd.rec[s_name] ELSE EmptyDict, p_name, data))

\* returns [error, spectra_data]: self.spectra_data after the call; an exception
\* leaves it as it was
parse_spectra_log(sd, f) ==
    LET parts == split(f.s_name, ".", 1, <<<<>>>>)
        s_name == parts[1]
        p_name == join_dot(Tail(parts))
        r == spectra_rows(f.lines, 2, [error |-> "none", data |-> EmptyDict])
    IN  [error |-> r.error,
         spectra_data |-> IF r.error # "none" THEN sd
                          ELSE store_plot(sd, s_name, p_name, r.data)]

----------------------------------------------------------------------------
\* Merqury: the files the host can hand to the module

\* f["s_name"] of the files
MqNames ==
    [completeness |-> <<"x", "_", "o", "u", "t", "p", "u", "t", "_", "m", "e", "r",
                        "q", "u", "r", "y", ".", "c", "o", "m", "p", "l", "e", "t",
                        "e", "n", "e", "s", "s", ".", "t", "a", "b">>,
     qv |-> <<"x", "_", "o", "u", "t", "p", "u", "t", "_", "m", "e", "r",
              "q", "u", "r", "y", ".", "q", "v", ".", "t", "a", "b">>,
     s_cn |-> <<"s", ".", "c", "n">>,
     s_asm |-> <<"s", ".", "a", "s", "m", ".", "x">>,   \* a second plot of sample s
     t_cn |-> <<"t", ".", "c", "n">>]

\* lines of the files
MqRows ==
    [completeness |-> <<"a", "s", "m", "\t", "a", "l", "l", "\t", "1", "0", "\t", "2",
                        "0", "\t", "5", "0", ".", "0">>,
     completeness3 |-> <<"a", "s", "m", "\t", "a", "l", "l", "\t", "1", "0">>,   \* three fields only
     qv |-> <<"a", "s", "m", "\t", "3", "\t", "1", "5", "\t", "4", "5", ".",
              "6", "\t", "0", ".", "0", "1">>,
     qv2 |-> <<"a", "s", "m", "\t", "3">>,   \* two fields only
     header |-> <<"k", "\t", "m", "\t", "c">>,   \* the first line of a spectra file: no number in it
     a1 |-> <<"a", "\t", "1", "\t", "5">>,
     a1again |-> <<"a", "\t", "1", "\t", "9">>,   \* multiplicity 1 of series a once more
     a2 |-> <<"a", "\t", "2", "\t", "3">>,
     b1 |-> <<"b", "\t", "1", "\t", "7">>,
     bad |-> <<"a", "\t", "2", "\t", "x">>,   \* a count that is no integer
     short |-> <<"a", "\t", "1">>]   \* no count

CompletenessFiles ==
    {[s_name |-> MqNames.completeness, lines |-> t] :
        t \in {<<MqRows.completeness>>, <<MqRows.completeness, MqRows.completeness3>>, <<>>}}

QvFiles ==
    {[s_name |-> MqNames.qv, lines |-> t] :
        t \in {<<MqRows.qv>>, <<MqRows.qv, MqRows.qv2>>, <<>>}}

\* spectra files of samples s and t: rows in two orders, a repeated row, a header
\* alone; and two files that int() or the indexing of a row rejects
SpectraFiles ==
    {[s_name |-> n, lines |-> t] :
        n \in {MqNames.s_cn, MqNames.s_asm, MqNames.t_cn},
        t \in {<<MqRows.header, MqRows.a1, MqRows.b1, MqRows.a2>>,
               <<MqRows.header, MqRows.a2, MqRows.b1, MqRows.a1>>,
               <<MqRows.header, MqRows.a1, MqRows.a2, MqRows.a1again>>,
               <<MqRows.header>>}}
    \cup {[s_name |-> MqNames.s_cn, lines |-> t] :
            t \in {<<MqRows.header, MqRows.a1, MqRows.bad>>,
                   <<MqRows.header, MqRows.short>>}}

\* files one loop of find_log_files yields, at most
MaxTabs == 1

MaxSpectra == 2

----------------------------------------------------------------------------
\* Merqury: the constructor

MqInit ==
    /\ mq_pc = "completeness"
    /\ mq_count = 0
    /\ mq_file = [s_name |-> <<>>, lines |-> <<>>]
    /\ completeness_data = EmptyDict
    /\ qv_data = EmptyDict
    /\ spectra_data = EmptyOrdered
    /\ merqury_png = EmptyOrdered
    /\ mq_ignore \in {{}, {<<"s">>}}
    /\ mq_sections = <<>>

\* one turn of 'for f in self.find_log_files("merqury/completeness")'
MqParseCompleteness ==
    /\ mq_pc = "completeness"
    /\ mq_count < MaxTabs
    /\ \E f \in CompletenessFiles :
         LET r == parse_completeness_log(completeness_data, f)
         IN  /\ mq_file' = f
             /\ completeness_data' = r.data
             /\ mq_pc' = IF r.ok THEN "completeness" ELSE "IndexError"
    /\ mq_count' = mq_count + 1
    /\ UNCHANGED <<qv_data, spectra_data, merqury_png, mq_ignore, mq_sections>>
    /\ UNCHANGED <<cqVars, fqVars, gsVars, pxVars>>

\* self.completeness_data = self.ignore_samples(self.completeness_data)
MqEndCompleteness ==
    /\ mq_pc = "completeness"
    /\ completeness_data' = ignore_samples(completeness_data, mq_ignore)
    /\ mq_pc' = "qv"
    /\ mq_count' = 0
    /\ UNCHANGED <<mq_file, qv_data, spectra_data, merqury_png, mq_ignore, mq_sections>>
    /\ UNCHANGED <<cqVars, fqVars, gsVars, pxVars>>

\* one turn of 'for f in self.find_log_files("merqury/qv")'
MqParseQv ==
    /\ mq_pc = "qv"
    /\ mq_count < MaxTabs
    /\ \E f \in QvFiles :
         LET r == parse_qv_log(qv_data, f)
         IN  /\ mq_file' = f
             /\ qv_data' = r.data
             /\ mq_pc' = IF r.ok THEN "qv" ELSE "IndexError"
    /\ mq_count' = mq_count + 1
    /\ UNCHANGED <<completeness_data, spectra_data, merqury_png, mq_ignore, mq_sections>>
    /\ UNCHANGED <<cqVars, fqVars, gsVars, pxVars>>

\* self.qv_data = self.ignore_samples(self.qv_data)
MqEndQv ==
    /\ mq_pc = "qv"
    /\ qv_data' = ignore_samples(qv_data, mq_ignore)
    /\ mq_pc' = "spectra"
    /\ mq_count' = 0
    /\ UNCHANGED <<mq_file, completeness_data, spectra_data, merqury_png, mq_ignore,
                   mq_sections>>
    /\ UNCHANGED <<cqVars, fqVars, gsVars, pxVars>>

\* one turn of 'for f in self.find_log_files("merqury/spectra")'
MqParseSpectra ==
    /\ mq_pc = "spectra"
    /\ mq_count < MaxSpectra
    /\ \E f \in SpectraFiles :
         LET r == parse_spectra_log(spectra_data, f)
         IN  /\ mq_file' = f
             /\ spectra_data' = r.spectra_data
             /\ mq_pc' = IF r.error = "none" THEN "spectra" ELSE r.error
    /\ mq_count' = mq_count + 1
    /\ UNCHANGED <<completeness_data, qv_data, merqury_png, mq_ignore, mq_sections>>
    /\ UNCHANGED <<cqVars, fqVars, gsVars, pxVars>>

\* self.spectra_data = self.ignore_samples(self.spectra_data), then the test
\* for no samples
MqEndSpectra ==
    /\ mq_pc = "spectra"
    /\ spectra_data' = ignore_samples_ordered(spectra_data, mq_ignore)
    /\ mq_pc' = IF completeness_data = EmptyDict /\ qv_data = EmptyDict
                   /\ spectra_data'.order = <<>>
                THEN "UserWarning" ELSE "render"
    /\ mq_count' = 0
    /\ UNCHANGED <<mq_file, completeness_data, qv_data, merqury_png, mq_ignore,
                   mq_sections>>
    /\ UNCHANGED <<cqVars, fqVars, gsVars, pxVars>>

\* the add_section calls of the constructor
MqAddSections ==
    /\ mq_pc = "render"
    /\ mq_sections' = <<[table |-> "merqury-completeness"], [table |-> "merqury-qv"]>>
                      \o [k \in 1..Len(spectra_data.order) |->
                            [spectra |-> spectra_data.order[k]]]
    /\ mq_pc' = "figures"
    /\ UNCHANGED <<mq_count, mq_file, completeness_data, qv_data, spectra_data,
                   merqury_png, mq_ignore>>
    /\ UNCHANGED <<cqVars, fqVars, gsVars, pxVars>>

\* self.plot_figures(): discovers and reads the images, adds one section each
MqPlotFigures ==
    /\ mq_pc = "figures"
    /\ \E pngs \in PngLists :
         /\ merqury_png' = load_figures(pngs, 1, EmptyOrdered)
         /\ mq_sections' = mq_sections \o [k \in 1..Len(merqury_png'.order) |->
                                           [image |-> merqury_png'.order[k]]]
    /\ mq_pc' = "done"
    /\ UNCHANGED <<mq_count, mq_file, completeness_data, qv_data, spectra_data, mq_ignore>>
    /\ UNCHANGED <<cqVars, fqVars, gsVars, pxVars>>

MqNext ==
    \/ MqParseCompleteness
    \/ MqEndCompleteness
    \/ MqParseQv
    \/ MqEndQv
    \/ MqParseSpectra
    \/ MqEndSpectra
    \/ MqAddSections
    \/ MqPlotFigures

\* a run that loads the Merqury module alone
MqAlone == MqInit /\ CqIdle /\ FqIdle /\ GsIdle /\ PxIdle

SpecMerqury == MqAlone /\ [][MqNext]_vars

----------------------------------------------------------------------------
\* The host runs one module

Init == CqAlone \/ FqAlone \/ GsAlone \/ PxAlone \/ MqAlone

Next == CqNext \/ FqNext \/ GsNext \/ PxNext \/ MqNext

Spec == Init /\ [][Next]_vars

----------------------------------------------------------------------------
\* Properties of the modules' constructors

\* the files of the walk FastQ Screen reads: named *_screen.txt, read without error
FqTaken(i) == EndsWith(fq_walk[i].fn, ScreenSuffix) /\ fq_walk[i].read = "ok"

FqNameOf(i) == SubSeq(fq_walk[i].fn, 1, Len(fq_walk[i].fn) - 11)

\* C3: a module whose discovery yields no matching file raises UserWarning to
\* the host and has added no section.
C3_NoFilesRaisesNoData ==
    /\ (cq_pc \notin {"idle", "parsing"} /\ n_log_files = 0) =>
            (cq_pc = "UserWarning" /\ cq_sections = <<>>)
    /\ (fq_pc \notin {"idle", "walking"} /\ \A i \in 1..Len(fq_walk) : ~FqTaken(i)) =>
            (fq_pc \in {"UserWarning", "OSError"} /\ fq_plot.data = <<>>)
    /\ (gs_pc \notin {"idle", "parsing", "figures"} /\ gs_files = <<>>
            /\ genomescope_png.order = <<>> /\ gs_ignore = {}) =>
            (gs_pc = "UserWarning" /\ gs_sections = <<>>)
    /\ (px_pc \notin {"idle", "reading"} /\ px_files = <<>> /\ px_fault = "none") =>
            (px_pc = "UserWarning" /\ px_sections = <<>>)

\* C8: an unexpected exception of find_log_files, of the file read or of
\* ignore_samples in the Pretext module is logged and swallowed: the
\* constructor returns normally and adds no further section.
C8_DiscoveryExceptionSwallowed ==
    px_fault \in {"find_log_files", "read", "ignore_samples"} =>
        (px_pc = "returned" /\ px_log # <<>> /\ px_sections = <<>>)

\* ---- C5
\* the value text without its unit suffixes "%" and "bp"
RECURSIVE C5_WithoutUnits(_)
C5_WithoutUnits(s) ==
    IF EndsWith(s, <<"b", "p">>) THEN C5_WithoutUnits(SubSeq(s, 1, Len(s) - 2))
    ELSE IF EndsWith(s, <<"%">>) THEN C5_WithoutUnits(SubSeq(s, 1, Len(s) - 1))
    ELSE s

C5_Expected(text) ==
    IF float(C5_WithoutUnits(text)).ok
    THEN [float |-> float(C5_WithoutUnits(text)).val]
    ELSE [str |-> text]

\* the rows of the file parsed last, as fields
C5_Rows ==
    LET content == content_of(gs_files[Len(gs_files)].lines, 1, FALSE)
    IN  [j \in 1..(IF content = <<>> THEN 0 ELSE Len(content) - 1) |->
            split_wide(Strip(content[j + 1]), 1, <<<<>>>>)]

\* C5: parse_summary_log stores a row's value as a number when the value
\* without its unit suffixes "%" and "bp" is numeric, and as the original
\* value text, unchanged, when it is not.
C5_ValueCoercion ==
    (gs_pc = "parsing" /\ gs_files # <<>>) =>
        \A j \in 1..Len(C5_Rows) :
            summary_data[gs_files[Len(gs_files)].s_name][C5_Rows[j][1]]
                = C5_Expected(C5_Rows[j][3])

\* ---- C6
C6_NoHitLines(lines) == {i \in 1..Len(lines) : Head_n(lines[i], 18) = NoHitPrefix}

\* C6: for any text, the "%Hit_no_libraries:" lines of a sample yield exactly
\* one record "No hits", whose one_hit_one_library is the number read from
\* offset 19 and whose four other percentages are 0.
C6_NoHitLineYieldsRecord ==
    fq_pc \in {"done", "ValueError"} =>
        \A s \in DOMAIN fq_screen_raw_data :
            C6_NoHitLines(fq_screen_raw_data[s]) # {} =>
                /\ s \in DOMAIN fq_screen_data
                /\ Cardinality({n \in 1..Len(fq_screen_data[s].order) :
                                    fq_screen_data[s].order[n] = NoHits}) = 1
                /\ \E i \in C6_NoHitLines(fq_screen_raw_data[s]) :
                     /\ float(From(fq_screen_raw_data[s][i], 19)).ok
                     /\ fq_screen_data[s].rec[NoHits].percentages
                          = [one_hit_one_library |->
                                 float(From(fq_screen_raw_data[s][i], 19)).val,
                             unmapped |-> Zero,
                             multiple_hits_one_library |-> Zero,
                             one_hit_multiple_libraries |-> Zero,
                             multiple_hits_multiple_libraries |-> Zero]

\* ---- C10
\* no line of the text is a no-hit line or an organism line
C10_NoRecord(lines) ==
    \A i \in 1..Len(lines) : Head_n(lines[i], 18) # NoHitPrefix /\ ~re_search(lines[i])

\* C10: a sample whose file yields no organism record is absent from what
\* parse_fqscreen returns, every other sample is returned with the records of
\* its own file, and the parser returns normally for the whole batch.
C10_EmptySampleDroppedOnly ==
    (/\ fq_pc \in {"done", "ValueError"}
     /\ \E s \in DOMAIN fq_screen_raw_data : C10_NoRecord(fq_screen_raw_data[s])) =>
        /\ fq_pc = "done"
        /\ DOMAIN fq_screen_data
             = {s \in DOMAIN fq_screen_raw_data : ~C10_NoRecord(fq_screen_raw_data[s])}
        /\ \A s \in DOMAIN fq_screen_data :
             fq_screen_data[s] = parse_sample(fq_screen_raw_data[s]).od

\* ---- C9
\* the last file of the walk read for sample name n
C9_LastRead(n) ==
    CHOOSE i \in 1..Len(fq_walk) :
        /\ FqTaken(i) /\ FqNameOf(i) = n
        /\ \A k \in 1..Len(fq_walk) : (FqTaken(k) /\ FqNameOf(k) = n) => k <= i

\* the last summary file parsed for sample name n
C9_LastParsed(n) ==
    CHOOSE i \in 1..Len(gs_files) :
        /\ gs_files[i].s_name = n
        /\ \A k \in 1..Len(gs_files) : gs_files[k].s_name = n => k <= i

\* C9: the aggregate mapping holds one entry per derived sample name, and its
\* content is that of the last file of that name (FastQ Screen raw data,
\* Genomescope summary data).
C9_LastWriteWins ==
    /\ fq_pc # "idle" =>
        /\ DOMAIN fq_screen_raw_data = {FqNameOf(i) : i \in {k \in 1..Len(fq_walk) : FqTaken(k)}}
        /\ \A n \in DOMAIN fq_screen_raw_data :
             fq_screen_raw_data[n] = fq_walk[C9_LastRead(n)].text
    /\ gs_pc \in {"parsing", "figures", "IndexError"} =>
        /\ DOMAIN summary_data = {gs_files[i].s_name : i \in 1..Len(gs_files)}
        /\ \A n \in DOMAIN summary_data :
             summary_data[n] = parse_rows(EmptyDict, gs_files[C9_LastParsed(n)]).record

\* two files of one sample name with different texts have been read
C9_Witness ==
    /\ fq_pc = "walking"
    /\ Len(fq_walk) = 2
    /\ FqTaken(1) /\ FqTaken(2)
    /\ FqNameOf(1) = FqNameOf(2)
    /\ fq_walk[1].text # fq_walk[2].text
    /\ fq_screen_raw_data[FqNameOf(1)] = fq_walk[2].text

\* ---- C11
\* the summary file yields no row: no "property" line, or no line after it
C11_ZeroRows(f) == Len(content_of(f.lines, 1, FALSE)) <= 1

\* C11: a summary file that yields zero rows leaves no entry for its sample in
\* summary_data, and a run whose summary files all yield zero rows and that has
\* no image raises the no-data signal.
C11_EmptySummaryDropped ==
    /\ gs_pc \in {"parsing", "figures"} =>
          \A n \in DOMAIN summary_data :
              \E i \in 1..Len(gs_files) :
                  gs_files[i].s_name = n /\ ~C11_ZeroRows(gs_files[i])
    /\ (/\ gs_pc \notin {"idle", "parsing", "figures"}
        /\ \A i \in 1..Len(gs_files) : C11_ZeroRows(gs_files[i])
        /\ genomescope_png.order = <<>>) => gs_pc = "UserWarning"

\* ---- C12
C12_Handlers == {handlers[k] : k \in 1..Len(handlers)}

\* document content holds, under handler h, an issue that is not ignored (for
\* UnidentifiedIndexHandler: that matches the pattern and is not ignored); with
\* cut, the index must also be among the 20 of highest mean of the document
C12_Kept(h, content, run, cut) ==
    /\ h \in DOMAIN content
    /\ IF h = "UnidentifiedIndexHandler"
       THEN \E x \in (IF cut THEN C4_Expected(content[h]) ELSE C4_Indexes(content[h])) :
                ~is_ignore_sample(clean_s_name(x))
       ELSE \E i \in 1..Len(content[h]) :
                ~is_ignore_sample(CqSampleOf(h, content[h][i], run))

\* one step of the constructor keeps the relation between handler keys, kept
\* issues and sections
C12_Step(cut) ==
    /\ (cq_pc = "parsing" /\ cq_pc' = "parsing" /\ cq_parsed' = cq_parsed + 1) =>
          \A h \in C12_Handlers :
              /\ h \in DOMAIN checkqc_data' <=>
                    \/ h \in DOMAIN checkqc_data
                    \/ C12_Kept(h, raw_content', cq_runs'[cq_parsed'], cut)
              /\ h \notin DOMAIN raw_content' =>
                    /\ h \in DOMAIN checkqc_data' <=> h \in DOMAIN checkqc_data
                    /\ h \in DOMAIN checkqc_data => checkqc_data'[h] = checkqc_data[h]
    /\ (cq_pc = "parsing" /\ cq_pc' = "done") =>
          {cq_sections'[k] : k \in 1..Len(cq_sections')} = DOMAIN checkqc_data
    /\ (cq_pc = "parsing" /\ cq_pc' = "UserWarning") =>
          (DOMAIN checkqc_data = {} /\ cq_sections' = <<>>)

\* C12 as stated: a handler's section is added if and only if some file held
\* that handler key with an issue that is not ignored (and, for
\* UnidentifiedIndexHandler, matches the pattern); a file without the key
\* leaves the handler's aggregate unchanged.
C12_SectionIffKeptIssue == [][C12_Step(FALSE)]_vars

\* C12, amended: for UnidentifiedIndexHandler the issue must also name one of
\* the 20 indexes of highest mean of its file; the rest as stated.
C12_SectionIffKeptInTop20 == [][C12_Step(TRUE)]_vars

\* two files parsed, the second without UnidentifiedIndexHandler; the report
\* has the section of that handler and of Q30Handler and no other
C12_Witness ==
    /\ cq_pc = "done"
    /\ cq_parsed = 2
    /\ "UnidentifiedIndexHandler" \notin DOMAIN raw_content
    /\ \E k \in 1..Len(cq_sections) : cq_sections[k] = "UnidentifiedIndexHandler"
    /\ \E k \in 1..Len(cq_sections) : cq_sections[k] = "Q30Handler"


----------------------------------------------------------------------------
\* C13: in every module run, discovery and parsing are over before the first
\* add_section call: once a module has added a section, no step of it changes
\* what it discovered or parsed.
C13_ParsedBeforeFirstSection ==
    [][/\ cq_sections # <<>> => UNCHANGED <<raw_content, checkqc_data>>
       /\ gs_sections # <<>> => UNCHANGED <<summary_data, genomescope_png>>
       /\ px_sections # <<>> => UNCHANGED pretext_data
       /\ mq_sections # <<>> =>
            UNCHANGED <<completeness_data, qv_data, spectra_data, merqury_png>>]_vars


----------------------------------------------------------------------------
\* C14: once the Genomescope constructor is past its no-data test, it has raised
\* UserWarning exactly when the filtered summary mapping and the image mapping
\* are both empty; in every other case it completed with the Summary section
\* followed by one section per image.
C14_NoDataOnlyWhenBothEmpty ==
    gs_pc \notin {"idle", "parsing", "figures", "IndexError"} =>
        IF summary_data = EmptyDict /\ genomescope_png.order = <<>>
        THEN gs_pc = "UserWarning"
        ELSE /\ gs_pc = "done"
             /\ gs_sections = <<"Summary">> \o genomescope_png.order


----------------------------------------------------------------------------
\* C15: with more than one input file, a later file's UnidentifiedIndexHandler
\* data is merged into the aggregate: for an index the aggregate already holds,
\* the record after the later parse still contains every lane entry it held
\* before, unchanged, next to the entries of the later file.
C15_Earlier(idx) == checkqc_data["UnidentifiedIndexHandler"][idx]

C15_Later(idx) == checkqc_data'["UnidentifiedIndexHandler"][idx]

C15_LaneEntriesOfBothFiles ==
    [][(/\ n_log_files > 1
        /\ cq_parsed' = cq_parsed + 1
        /\ "UnidentifiedIndexHandler" \in DOMAIN checkqc_data) =>
            /\ "UnidentifiedIndexHandler" \in DOMAIN checkqc_data'
            /\ \A idx \in DOMAIN checkqc_data["UnidentifiedIndexHandler"] :
                 /\ idx \in DOMAIN checkqc_data'["UnidentifiedIndexHandler"]
                 /\ \A k \in DOMAIN C15_Earlier(idx) :
                      /\ k \in DOMAIN C15_Later(idx)
                      /\ C15_Later(idx)[k] = C15_Earlier(idx)[k]]_vars


----------------------------------------------------------------------------
\* the record a threshold handler builds for an issue
C16_RecordOf(h, issue) ==
    IF h = "ReadsPerSampleHandler" THEN reads_record(issue)
    ELSE IF h = "ClusterPFHandler" THEN cluster_pf_record(issue)
    ELSE IF h = "Q30Handler" THEN q30_record(issue)
    ELSE IF h = "ErrorRateHandler" THEN error_rate_record(issue)
    ELSE undetermined_record(issue)

\* issue i of handler h is kept, and no later issue of the list derives its identifier
C16_Standing(h, i) ==
    /\ ~is_ignore_sample(CqSampleOf(h, raw_content[h][i], cq_runs[cq_parsed]))
    /\ \A j \in (i + 1)..Len(raw_content[h]) :
         CqSampleOf(h, raw_content[h][j], cq_runs[cq_parsed])
            # CqSampleOf(h, raw_content[h][i], cq_runs[cq_parsed])

\* C16: in each threshold handler the record built for an issue holds exactly
\* one of missing_error and missing_warning, missing_error exactly when the
\* issue's type is "error"; and that record is the one the aggregate holds for a
\* kept issue (until a later issue of the same identifier is parsed).
C16_OneChannelByType ==
    (cq_pc = "parsing" /\ cq_parsed >= 1) =>
        \A h \in ThresholdHandlers \cap DOMAIN raw_content :
            \A i \in 1..Len(raw_content[h]) :
                LET issue == raw_content[h][i]
                    rec == C16_RecordOf(h, issue)
                IN  /\ ("missing_error" \in DOMAIN rec) <=> (issue.type = "error")
                    /\ ("missing_warning" \in DOMAIN rec) <=> (issue.type # "error")
                    /\ C16_Standing(h, i) =>
                         checkqc_data[h][CqSampleOf(h, issue, cq_runs[cq_parsed])] = rec

\* a document with an error and a warning of two lanes was parsed, both kept
C16_Witness ==
    /\ cq_pc = "parsing" /\ cq_parsed >= 1
    /\ "ErrorRateHandler" \in DOMAIN raw_content
    /\ Len(raw_content["ErrorRateHandler"]) = 2
    /\ raw_content["ErrorRateHandler"][1].type = "error"
    /\ raw_content["ErrorRateHandler"][2].type = "warning"
    /\ C16_Standing("ErrorRateHandler", 1)
    /\ C16_Standing("ErrorRateHandler", 2)
    /\ "missing_error" \in DOMAIN checkqc_data["ErrorRateHandler"][
            CqSampleOf("ErrorRateHandler", raw_content["ErrorRateHandler"][1],
                       cq_runs[cq_parsed])]


----------------------------------------------------------------------------
\* the distance value of a record: what it holds under missing_error or
\* missing_warning
C17_Distance(rec) ==
    IF "missing_error" \in DOMAIN rec THEN rec["missing_error"] ELSE rec["missing_warning"]

\* threshold minus observed for the count and quality handlers, observed minus
\* threshold for the rate handlers; computed tells which threshold of the issue
\* the undetermined percentage is held against
C17_Expected(h, issue, computed) ==
    IF h = "ReadsPerSampleHandler"
    THEN issue.data.threshold * Million - issue.data.sample_reads * Million
    ELSE IF h = "ClusterPFHandler" THEN issue.data.threshold * Million - issue.data.lane_pf
    ELSE IF h = "Q30Handler" THEN issue.data.threshold - issue.data.percent_q30
    ELSE IF h = "ErrorRateHandler" THEN issue.data.error_rate - issue.data.threshold
    ELSE IF computed
    THEN issue.data.percentage_undetermined - issue.data.computed_threshold
    ELSE issue.data.percentage_undetermined - issue.data.threshold

C17_Holds(computed) ==
    (cq_pc = "parsing" /\ cq_parsed >= 1) =>
        \A h \in ThresholdHandlers \cap DOMAIN raw_content :
            \A i \in 1..Len(raw_content[h]) :
                C16_Standing(h, i) =>
                    C17_Distance(checkqc_data[h][CqSampleOf(h, raw_content[h][i],
                                                            cq_runs[cq_parsed])])
                        = C17_Expected(h, raw_content[h][i], computed)

\* C17 as stated: the distance value the aggregate holds for a kept issue is
\* threshold*10^6 - sample_reads*10^6 (ReadsPerSample), threshold*10^6 - lane_pf
\* (ClusterPF), threshold - percent_q30 (Q30), error_rate - threshold
\* (ErrorRate), percentage_undetermined - threshold (UndeterminedPercentage).
C17_DistanceToThreshold == C17_Holds(FALSE)

\* C17, amended: as stated for the first four handlers; UndeterminedPercentage
\* gives percentage_undetermined - computed_threshold.
C17_DistanceToComputedThreshold == C17_Holds(TRUE)

\* a document was parsed whose first issue is kept by the Q30 and the
\* undetermined handler, its two thresholds differing and its distances not zero
C17_Witness ==
    /\ cq_pc = "parsing" /\ cq_parsed >= 1
    /\ {"Q30Handler", "UndeterminedPercentageHandler"} \subseteq DOMAIN raw_content
    /\ C16_Standing("Q30Handler", 1)
    /\ C16_Standing("UndeterminedPercentageHandler", 1)
    /\ LET issue == raw_content["UndeterminedPercentageHandler"][1]
       IN  /\ issue.data.threshold # issue.data.computed_threshold
           /\ issue.data.threshold # issue.data.percent_q30
           /\ issue.data.percentage_undetermined # issue.data.computed_threshold


----------------------------------------------------------------------------
\* the lines of a text that start with the no-hit prefix or match the pattern
C18_Matching(lines) ==
    {i \in 1..Len(lines) : Head_n(lines[i], 18) = NoHitPrefix \/ re_search(lines[i])}

\* the organism a matching line names
C18_Org(l) == IF Head_n(l, 18) = NoHitPrefix THEN NoHits ELSE Fields(l, 1, <<>>)[1]

\* the record of a matching line
C18_Record(l) ==
    IF Head_n(l, 18) = NoHitPrefix THEN no_hits_record(float(From(l, 19)).val)
    ELSE organism_record(Fields(l, 1, <<>>))

C18_First(lines, org) ==
    CHOOSE i \in C18_Matching(lines) :
        /\ C18_Org(lines[i]) = org
        /\ \A k \in C18_Matching(lines) : C18_Org(lines[k]) = org => i <= k

C18_Last(lines, org) ==
    CHOOSE i \in C18_Matching(lines) :
        /\ C18_Org(lines[i]) = org
        /\ \A k \in C18_Matching(lines) : C18_Org(lines[k]) = org => k <= i

\* C18: a line of neither kind leaves the records parsed before it as they were
\* and raises nothing; when parse_fqscreen returns, the records of a sample are
\* exactly those of its matching lines, one per organism named, in file order.
C18_OtherLinesIgnored ==
    /\ \A s \in DOMAIN fq_screen_raw_data :
         LET lines == fq_screen_raw_data[s]
         IN  \A i \in (1..Len(lines)) \ C18_Matching(lines) :
                 LET acc == parse_sample(SubSeq(lines, 1, i - 1))
                 IN  acc.ok => parse_lines(SubSeq(lines, 1, i), 1,
                                           [ok |-> TRUE, od |-> EmptyOrdered]) = acc
    /\ fq_pc = "done" =>
         \A s \in DOMAIN fq_screen_raw_data :
             LET lines == fq_screen_raw_data[s]
                 od == IF s \in DOMAIN fq_screen_data THEN fq_screen_data[s] ELSE EmptyOrdered
             IN  /\ {od.order[n] : n \in 1..Len(od.order)}
                       = {C18_Org(lines[i]) : i \in C18_Matching(lines)}
                 /\ \A a, b \in 1..Len(od.order) :
                      a < b => C18_First(lines, od.order[a]) < C18_First(lines, od.order[b])
                 /\ \A n \in 1..Len(od.order) :
                      od.rec[od.order[n]] = C18_Record(lines[C18_Last(lines, od.order[n])])

\* parse_fqscreen returned for a text with a line of neither kind between two
\* organism lines, both organisms recorded
C18_Witness ==
    /\ fq_pc = "done"
    /\ \E s \in DOMAIN fq_screen_raw_data :
         LET lines == fq_screen_raw_data[s]
         IN  /\ \E i, j, k \in 1..Len(lines) :
                  /\ i < j /\ j < k
                  /\ {i, k} \subseteq C18_Matching(lines)
                  /\ j \notin C18_Matching(lines)
             /\ s \in DOMAIN fq_screen_data
             /\ Len(fq_screen_data[s].order) = 2


----------------------------------------------------------------------------
\* the position of the first "." of a name, Len(name) + 1 when it has none
C19_Dot(name) ==
    IF \E i \in 1..Len(name) : name[i] = "."
    THEN CHOOSE i \in 1..Len(name) :
            name[i] = "." /\ \A k \in 1..(i - 1) : name[k] # "."
    ELSE Len(name) + 1

\* the part of a file name before its first ".", and the remainder
C19_Sample(name) == SubSeq(name, 1, C19_Dot(name) - 1)

C19_Plot(name) == SubSeq(name, C19_Dot(name) + 1, Len(name))

\* the plots of a sample in a spectra mapping
C19_Plots(sd, sample) == IF sample \in DOMAIN sd.rec THEN sd.rec[sample] ELSE EmptyDict

\* C19: a spectra file parsed is stored under the sample named by the part of
\* its name before the first ".", as the plot named by the remainder: the plot
\* entry is added or replaced, every other plot entry of the sample and every
\* other sample is left unchanged.
C19_SpectraMergedBySample ==
    [][(mq_pc = "spectra" /\ mq_pc' = "spectra" /\ mq_count' = mq_count + 1) =>
          LET sample == C19_Sample(mq_file'.s_name)
              plot == C19_Plot(mq_file'.s_name)
              before == C19_Plots(spectra_data, sample)
              after == C19_Plots(spectra_data', sample)
          IN  /\ DOMAIN spectra_data'.rec = DOMAIN spectra_data.rec \cup {sample}
              /\ \A x \in DOMAIN spectra_data.rec \ {sample} :
                   spectra_data'.rec[x] = spectra_data.rec[x]
              /\ DOMAIN after = DOMAIN before \cup {plot}
              /\ \A q \in DOMAIN before \ {plot} : after[q] = before[q]
              /\ after[plot] = spectra_rows(mq_file'.lines, 2,
                                            [error |-> "none", data |-> EmptyDict]).data]_vars

\* two files of sample s with different remainders were parsed: two plot
\* entries under one key
C19_Witness ==
    /\ mq_pc = "spectra"
    /\ mq_count = 2
    /\ DOMAIN spectra_data.rec = {<<"s">>}
    /\ DOMAIN spectra_data.rec[<<"s">>] = {<<"c", "n">>, <<"a", "s", "m", ".", "x">>}
    /\ spectra_data.rec[<<"s">>][<<"c", "n">>] # EmptyDict


----------------------------------------------------------------------------
\* a row of a spectra file read as (series, multiplicity, count)
C20_Row(l) ==
    LET s == split(Strip(l), "\t", 1, <<<<>>>>)
    IN  [serie |-> s[1], multiplicity |-> int(s[2]).val, count |-> int(s[3]).val]

\* the rows of a text: every line after the first
C20_Rows(lines) == [i \in 1..(Len(lines) - 1) |-> C20_Row(lines[i + 1])]

\* the last row of (series, multiplicity)
C20_Last(rows, serie, m) ==
    CHOOSE i \in 1..Len(rows) :
        /\ rows[i].serie = serie /\ rows[i].multiplicity = m
        /\ \A k \in 1..Len(rows) :
             (rows[k].serie = serie /\ rows[k].multiplicity = m) => k <= i

\* no two rows of one (series, multiplicity)
C20_Distinct(rows) ==
    \A i, k \in 1..Len(rows) :
        (rows[i].serie = rows[k].serie /\ rows[i].multiplicity = rows[k].multiplicity)
            => i = k

\* the data parse_spectra_log stored for the file parsed last
C20_Data ==
    spectra_data.rec[C19_Sample(mq_file.s_name)][C19_Plot(mq_file.s_name)]

\* C20: after parse_spectra_log has stored a file, the data hold no entry of the
\* first line and, for every other row, series -> multiplicity -> count as
\* integers, one entry per (series, multiplicity) with the count of the last
\* such row; a file of the same rows in another order, each (series,
\* multiplicity) once, gives the same data.
C20_RowsStoredLastWins ==
    (mq_pc = "spectra" /\ mq_count >= 1) =>
        LET rows == C20_Rows(mq_file.lines)
        IN  /\ DOMAIN C20_Data = {rows[i].serie : i \in 1..Len(rows)}
            /\ \A serie \in DOMAIN C20_Data :
                 /\ DOMAIN C20_Data[serie]
                      = {rows[i].multiplicity : i \in {k \in 1..Len(rows) :
                                                          rows[k].serie = serie}}
                 /\ DOMAIN C20_Data[serie] \subseteq Int
                 /\ \A m \in DOMAIN C20_Data[serie] :
                      /\ C20_Data[serie][m] \in Int
                      /\ C20_Data[serie][m] = rows[C20_Last(rows, serie, m)].count
            /\ \A f \in SpectraFiles :
                 LET other == spectra_rows(f.lines, 2, [error |-> "none", data |-> EmptyDict])
                 IN  (/\ other.error = "none"
                      /\ C20_Distinct(rows)
                      /\ Len(f.lines) = Len(mq_file.lines)
                      /\ {f.lines[k] : k \in 2..Len(f.lines)}
                            = {mq_file.lines[k] : k \in 2..Len(mq_file.lines)})
                        => other.data = C20_Data

\* a file with a row of (a, 1) repeated was stored: the last count is kept
C20_Witness ==
    /\ mq_pc = "spectra"
    /\ mq_count >= 1
    /\ mq_file.lines = <<MqRows.header, MqRows.a1, MqRows.a2, MqRows.a1again>>
    /\ C20_Data[<<"a">>][1] = 9
    /\ C20_Data[<<"a">>][2] = 3


----------------------------------------------------------------------------
\* the file parse_summary_log was handed last
C21_File == gs_files[Len(gs_files)]

\* the lines after the first line that starts with "property"; none when no
\* line does
C21_After(lines) ==
    LET heads == {i \in 1..Len(lines) : StartsWith(lines[i], PropertyWord)}
    IN  IF heads = {} THEN {}
        ELSE {i \in 1..Len(lines) : \E h \in heads : (\A k \in heads : h <= k) /\ h < i}

\* a line split on runs of two or more spaces
C21_Fields(l) == split_wide(Strip(l), 1, <<<<>>>>)

\* the last of the lines after the header whose first field is name
C21_Last(lines, name) ==
    CHOOSE i \in C21_After(lines) :
        /\ C21_Fields(lines[i])[1] = name
        /\ \A k \in C21_After(lines) : C21_Fields(lines[k])[1] = name => k <= i

\* C21: once parse_summary_log has been handed a file, the sample's record
\* holds no metric of a line before the first "property" line nor of that
\* line, and one metric for every line after it: named by the line's first
\* field, its value taken from the third field, the line split on runs of two
\* or more spaces.
C21_RowsAfterHeaderOnly ==
    (gs_pc \in {"parsing", "IndexError"} /\ gs_files # <<>>) =>
        LET lines == C21_File.lines
            record == summary_data[C21_File.s_name]
        IN  /\ gs_pc = "parsing"
            /\ \A i \in C21_After(lines) : Len(C21_Fields(lines[i])) >= 3
            /\ DOMAIN record = {C21_Fields(lines[i])[1] : i \in C21_After(lines)}
            /\ \A name \in DOMAIN record :
                 record[name] = coerce(C21_Fields(lines[C21_Last(lines, name)])[3])


----------------------------------------------------------------------------
\* the positions of the series of hit type k in the plot
C22_OfType(k) == {j \in 1..Len(fq_plot.data) : fq_plot.data[j].name = k}

\* C22: in what fqscreen_plot built, every series has as many values as there
\* are categories, its i-th value the percentage of the organism the i-th
\* category names; every sample has exactly four series; within a hit type
\* every series but the first is linked to the previous one.
C22_SeriesAlignedWithCategories ==
    fq_pc = "done" =>
        /\ \A j \in 1..Len(fq_plot.data) :
             LET td == fq_plot.data[j]
                 orgs == fq_screen_data[td.stack]
             IN  /\ Len(td.data) = Len(fq_plot.categories)
                 /\ \A i \in 1..Len(fq_plot.categories) :
                      /\ fq_plot.categories[i] \in DOMAIN orgs.rec
                      /\ td.data[i] = orgs.rec[fq_plot.categories[i]].percentages[td.name]
        /\ \A s \in DOMAIN fq_screen_data :
             Cardinality({j \in 1..Len(fq_plot.data) : fq_plot.data[j].stack = s}) = 4
        /\ \A n \in 1..Len(p_types) :
             \A j \in C22_OfType(p_types[n]) :
                 fq_plot.data[j].linked <=> (\E k \in C22_OfType(p_types[n]) : k < j)


----------------------------------------------------------------------------
\* C23: after any sequence of summary files has been parsed, every metric name
\* of every sample record of summary_data is the key of a column header of the
\* table summary_table builds.
C23_EveryMetricHasHeader ==
    (gs_pc \in {"parsing", "figures", "done"}) =>
        \A s \in DOMAIN summary_data :
            \A name \in DOMAIN summary_data[s] :
                \E k \in 1..Len(summary_table(legends.names)) :
                    summary_table(legends.names)[k] = name

====
